---- MODULE Spec2Model ----
(***************************************************************************)
(* TranslateX translation orchestration engine.                            *)
(*                                                                         *)
(* Strings are sequences of one-character strings, so that length, split,  *)
(* trim and join are computed the way the TypeScript code computes them.   *)
(*                                                                         *)
(*   Spec      one translateText call of the OpenAI variant                *)
(*             (src/src/services/translationService.ts)                    *)
(*   SpecRetry withRetry around an arbitrary operation                     *)
(*   SpecRL    one RateLimiter shared by concurrent chunk loops, on a      *)
(*             discrete millisecond clock                                  *)
(*   SpecSingleCaller  the same RateLimiter with one sequential caller     *)
(*   SpecSequential    one translateText call of the OpenAI or of the      *)
(*             multi-provider variant (src/unnamed/part_002)               *)
(*   SpecChunk chunkText, in both of its variants, applied to a text       *)
(*   SpecBatch one translateText call of the batched free-Google variant   *)
(*             (src/unnamed/part_006)                                      *)
(*   SpecParallel  one translateText call of the parallel free-Google      *)
(*             variant (src/unnamed/part_004)                              *)
(*   SpecLegacyRetry   withRetry of the free-Google variants around an     *)
(*             arbitrary operation                                         *)
(*   SpecFree  one translateText call of the sequential free-Google        *)
(*             variant with fallback (src/unnamed/part_007)                *)
(*   SpecClient    one call of a provider client of the multi-provider     *)
(*             variant (src/unnamed/part_002)                              *)
(*   SpecApp   one row of the table of src/src/App.tsx                     *)
(*   SpecLive  Spec with the fairness of its scheduling                    *)
(*   SpecFreeTimed     one translateChunks call of the sequential          *)
(*             free-Google variant on a discrete millisecond clock         *)
(*   SpecProgress      the progress display of one row of App.tsx          *)
(*   SpecOrder the column order of App.tsx                                 *)
(*   SpecTable the TranslationTable component (src/unnamed/part_001)       *)
(*   SpecSwitch        one translateText call of the multi-provider        *)
(*             variant with setTranslationService calls                    *)
(***************************************************************************)
EXTENDS Integers, Sequences, FiniteSets, TLC

(***************************************************************************)
(* String helpers (JavaScript String methods used by the service)          *)
(***************************************************************************)

\* White space as matched by \s and removed by String.prototype.trim
IsSpace(c) == c \in {" ", "\n"}

\* Sentence-ending punctuation of the look-behind (?<=[.!?])
IsPunct(c) == c \in {".", "!", "?"}

RECURSIVE TrimStart(_)
TrimStart(s) ==
  IF s # <<>> /\ IsSpace(Head(s)) THEN TrimStart(Tail(s)) ELSE s

RECURSIVE TrimEnd(_)
TrimEnd(s) ==
  IF s # <<>> /\ IsSpace(s[Len(s)]) THEN TrimEnd(SubSeq(s, 1, Len(s) - 1)) ELSE s

\* String.prototype.trim
Trim(s) == TrimEnd(TrimStart(s))

\* String.prototype.split(sep) for a one-character separator
RECURSIVE SplitFrom(_, _, _, _)
SplitFrom(s, sep, i, cur) ==
  IF i > Len(s) THEN <<cur>>
  ELSE IF s[i] = sep THEN <<cur>> \o SplitFrom(s, sep, i + 1, <<>>)
  ELSE SplitFrom(s, sep, i + 1, Append(cur, s[i]))

Split(s, sep) == SplitFrom(s, sep, 1, <<>>)

\* first index >= i of s that is not white space (Len(s)+1 if none)
RECURSIVE SkipSpaces(_, _)
SkipSpaces(s, i) ==
  IF i <= Len(s) /\ IsSpace(s[i]) THEN SkipSpaces(s, i + 1) ELSE i

\* line.split(/(?<=[.!?])\s+/): cut at every maximal run of white space that
\* directly follows a sentence-ending punctuation character
RECURSIVE SentencesFrom(_, _, _)
SentencesFrom(s, i, cur) ==
  IF i > Len(s) THEN <<cur>>
  ELSE IF IsSpace(s[i]) /\ i > 1 /\ IsPunct(s[i - 1])
       THEN <<cur>> \o SentencesFrom(s, SkipSpaces(s, i), <<>>)
       ELSE SentencesFrom(s, i + 1, Append(cur, s[i]))

SplitSentences(s) == SentencesFrom(s, 1, <<>>)

\* Array.prototype.join(sep), sep a string
RECURSIVE Join(_, _)
Join(parts, sep) ==
  IF parts = <<>> THEN <<>>
  ELSE IF Len(parts) = 1 THEN parts[1]
  ELSE parts[1] \o sep \o Join(Tail(parts), sep)

(***************************************************************************)
(* chunkText (translationService.ts:89-155)                                *)
(***************************************************************************)

\* mutant of Glue: a piece is added to an empty buffer only
GlueFirstOnly(cur, sep, piece) == IF cur # <<>> THEN cur ELSE piece

\* "cur += (cur ? sep : '') + piece"
Glue(cur, sep, piece) == (IF cur # <<>> THEN cur \o sep ELSE <<>>) \o piece

\* for (const word of words) { ... }            lines 122-134
RECURSIVE WordLoop(_, _, _, _, _)
WordLoop(words, i, chunks, wordChunk, maxChunkSize) ==
  IF i > Len(words) THEN [chunks |-> chunks, cur |-> wordChunk]
  ELSE LET word == words[i] IN
    IF Len(wordChunk) + 1 + Len(word) <= maxChunkSize
    THEN WordLoop(words, i + 1, chunks, Glue(wordChunk, <<" ">>, word), maxChunkSize)
    ELSE IF wordChunk # <<>>
    THEN WordLoop(words, i + 1, Append(chunks, wordChunk), word, maxChunkSize)
    ELSE WordLoop(words, i + 1, Append(chunks, word), wordChunk, maxChunkSize)

\* for (const sentence of sentences) { ... }    lines 110-141
RECURSIVE SentenceLoop(_, _, _, _, _)
SentenceLoop(sentences, i, chunks, sentenceChunk, maxChunkSize) ==
  IF i > Len(sentences) THEN [chunks |-> chunks, cur |-> sentenceChunk]
  ELSE LET sentence == sentences[i] IN
    IF Len(sentenceChunk) + 1 + Len(sentence) <= maxChunkSize
    THEN SentenceLoop(sentences, i + 1, chunks,
                      Glue(sentenceChunk, <<" ">>, sentence), maxChunkSize)
    ELSE IF sentenceChunk # <<>>
    THEN SentenceLoop(sentences, i + 1, Append(chunks, sentenceChunk),
                      sentence, maxChunkSize)
    ELSE LET w == WordLoop(Split(sentence, " "), 1, chunks, <<>>, maxChunkSize) IN
         SentenceLoop(sentences, i + 1, w.chunks,
                      IF w.cur # <<>> THEN w.cur ELSE sentenceChunk, maxChunkSize)

\* for (const line of lines) { ... }            lines 98-148
RECURSIVE LineLoop(_, _, _, _, _)
LineLoop(lines, i, chunks, currentChunk, maxChunkSize) ==
  IF i > Len(lines) THEN [chunks |-> chunks, cur |-> currentChunk]
  ELSE LET line == lines[i] IN
    IF Len(currentChunk) + 1 + Len(line) <= maxChunkSize
    THEN LineLoop(lines, i + 1, chunks, Glue(currentChunk, <<"\n">>, line), maxChunkSize)
    ELSE IF currentChunk # <<>>
    THEN LineLoop(lines, i + 1, Append(chunks, currentChunk), line, maxChunkSize)
    ELSE LET s == SentenceLoop(SplitSentences(line), 1, chunks, <<>>, maxChunkSize) IN
         LineLoop(lines, i + 1, s.chunks,
                  IF s.cur # <<>> THEN s.cur ELSE currentChunk, maxChunkSize)

\* mutant of chunkText: without the final "chunks.length > 0 ? chunks : [text]"
chunkTextNoFallback(text, maxChunkSize) ==
  IF Len(text) <= maxChunkSize THEN <<text>>
  ELSE LET r == LineLoop(Split(text, "\n"), 1, <<>>, <<>>, maxChunkSize)
       IN IF r.cur # <<>> THEN Append(r.chunks, r.cur) ELSE r.chunks

chunkText(text, maxChunkSize) ==
  IF Len(text) <= maxChunkSize THEN <<text>>
  ELSE LET r == LineLoop(Split(text, "\n"), 1, <<>>, <<>>, maxChunkSize)
           chunks == IF r.cur # <<>> THEN Append(r.chunks, r.cur) ELSE r.chunks
       IN IF Len(chunks) > 0 THEN chunks ELSE <<text>>

(***************************************************************************)
(* chunkText of the free-Google variants (part_007:36-110, identical in    *)
(* part_006:1718-1792)                                                     *)
(***************************************************************************)

\* first index >= i of s that is not sentence punctuation (Len(s)+1 if none)
RECURSIVE SkipPunct(_, _)
SkipPunct(s, i) ==
  IF i <= Len(s) /\ IsPunct(s[i]) THEN SkipPunct(s, i + 1) ELSE i

\* line.split(/[.!?]+/): cut at every maximal run of punctuation
RECURSIVE PunctSplitFrom(_, _, _)
PunctSplitFrom(s, i, cur) ==
  IF i > Len(s) THEN <<cur>>
  ELSE IF IsPunct(s[i]) THEN <<cur>> \o PunctSplitFrom(s, SkipPunct(s, i), <<>>)
  ELSE PunctSplitFrom(s, i + 1, Append(cur, s[i]))

SplitPunct(s) == PunctSplitFrom(s, 1, <<>>)

\* .filter(s => s.trim())
NonBlankParts(parts) == SelectSeq(parts, LAMBDA part : Trim(part) # <<>>)

\* "if (cur.trim()) { chunks.push(cur.trim()); cur = ''; }"
LegacyFlush(chunks, cur) ==
  IF Trim(cur) # <<>>
  THEN [chunks |-> Append(chunks, Trim(cur)), cur |-> <<>>]
  ELSE [chunks |-> chunks, cur |-> cur]

\* for (const word of words) { ... }            part_007:70-81
RECURSIVE LegacyWordLoop(_, _, _, _, _)
LegacyWordLoop(words, i, chunks, wordChunk, maxLength) ==
  IF i > Len(words) THEN [chunks |-> chunks, cur |-> wordChunk]
  ELSE LET word == words[i] IN
    IF Len(wordChunk) + Len(word) + 1 > maxLength
    THEN LET f == LegacyFlush(chunks, wordChunk) IN
         LegacyWordLoop(words, i + 1, Append(f.chunks, word), f.cur, maxLength)
    ELSE LegacyWordLoop(words, i + 1, chunks, Glue(wordChunk, <<" ">>, word), maxLength)

\* for (const sentence of sentences) { ... }    part_007:58-92
RECURSIVE LegacySentenceLoop(_, _, _, _, _)
LegacySentenceLoop(sentences, i, chunks, sentenceChunk, maxLength) ==
  IF i > Len(sentences) THEN [chunks |-> chunks, cur |-> sentenceChunk]
  ELSE LET sentence == sentences[i] IN
    IF Len(sentenceChunk) + Len(sentence) + 1 > maxLength
    THEN LET f == LegacyFlush(chunks, sentenceChunk) IN
         IF Len(sentence) > maxLength
         THEN LET w == LegacyWordLoop(Split(sentence, " "), 1, f.chunks, <<>>, maxLength) IN
              LegacySentenceLoop(sentences, i + 1, w.chunks,
                                 IF Trim(w.cur) # <<>> THEN w.cur ELSE f.cur, maxLength)
         ELSE LegacySentenceLoop(sentences, i + 1, f.chunks, sentence, maxLength)
    ELSE LegacySentenceLoop(sentences, i + 1, chunks,
                            Glue(sentenceChunk, <<".", " ">>, sentence), maxLength)

\* for (const line of lines) { ... }            part_007:45-103
RECURSIVE LegacyLineLoop(_, _, _, _, _)
LegacyLineLoop(lines, i, chunks, currentChunk, maxLength) ==
  IF i > Len(lines) THEN [chunks |-> chunks, cur |-> currentChunk]
  ELSE LET line == lines[i] IN
    IF Len(currentChunk) + Len(line) + 1 > maxLength
    THEN LET f == LegacyFlush(chunks, currentChunk) IN
         IF Len(line) > maxLength
         THEN LET s == LegacySentenceLoop(NonBlankParts(SplitPunct(line)), 1,
                                          f.chunks, <<>>, maxLength) IN
              LegacyLineLoop(lines, i + 1, s.chunks,
                             IF Trim(s.cur) # <<>> THEN s.cur ELSE f.cur, maxLength)
         ELSE LegacyLineLoop(lines, i + 1, f.chunks, line, maxLength)
    ELSE LegacyLineLoop(lines, i + 1, chunks, Glue(currentChunk, <<"\n">>, line), maxLength)

\* mutant of chunkTextLegacy: the fast path trims, as every other push does
chunkTextLegacyTrimmed(text, maxLength) ==
  IF Len(text) <= maxLength THEN <<Trim(text)>>
  ELSE LET r == LegacyFlush(LegacyLineLoop(Split(text, "\n"), 1, <<>>, <<>>, maxLength).chunks,
                            LegacyLineLoop(Split(text, "\n"), 1, <<>>, <<>>, maxLength).cur)
       IN IF Len(r.chunks) > 0 THEN r.chunks ELSE <<text>>

chunkTextLegacy(text, maxLength) ==
  IF Len(text) <= maxLength THEN <<text>>
  ELSE LET l == LegacyLineLoop(Split(text, "\n"), 1, <<>>, <<>>, maxLength)
           r == LegacyFlush(l.chunks, l.cur)
       IN IF Len(r.chunks) > 0 THEN r.chunks ELSE <<text>>

(***************************************************************************)
(* Program constants                                                       *)
(***************************************************************************)

\* a key order that differs from the declared one
LanguagesFrenchFirst ==
  << "french", "spanish", "turkish", "russian", "ukrainian",
     "portuguese", "chinese", "japanese", "arabic" >>

\* Object.keys(LANGUAGE_CODES), in insertion order (translationService.ts:23-33)
Languages ==
  << "spanish", "french", "turkish", "russian", "ukrainian",
     "portuguese", "chinese", "japanese", "arabic" >>

LANGUAGE_CODES ==
  [ spanish    |-> [code |-> "es", name |-> "Spanish"],
    french     |-> [code |-> "fr", name |-> "French"],
    turkish    |-> [code |-> "tr", name |-> "Turkish"],
    russian    |-> [code |-> "ru", name |-> "Russian"],
    ukrainian  |-> [code |-> "uk", name |-> "Ukrainian"],
    portuguese |-> [code |-> "pt", name |-> "Portuguese"],
    chinese    |-> [code |-> "zh", name |-> "Chinese"],
    japanese   |-> [code |-> "ja", name |-> "Japanese"],
    arabic     |-> [code |-> "ar", name |-> "Arabic"] ]

LanguageKeys == { Languages[i] : i \in 1..Len(Languages) }

\* translateToLanguage: withRetry(..., 2, 1000)
OpenAIMaxRetries == 2
OpenAIBaseDelay == 1000

\* const openaiRateLimiter = new RateLimiter(1000)
OpenAIInterval == 1000

\* Math.random() * 1000 lies in [0, 1000)
JitterRange == 1000

(***************************************************************************)
(* Bounds of the model                                                     *)
(***************************************************************************)

\* chunkText(text, 1500) is applied with this chunk size, so that texts of a
\* few characters already split into several chunks
ChunkSize == 4

\* SpecRetry tries withRetry with maxRetries in 0..MaxRetriesBound
MaxRetriesBound == 3

\* SpecRL: number of flows sharing the limiter, the clock's step and range
NFlows == 2
TickMs == 500
StartTime == 1000
MaxClock == 4000

\* the batched variant's chunkText(text, CHUNK_LIMIT) is applied with this
\* limit (CHUNK_LIMIT is 1000)
LegacyChunkLimit == 4

\* the input texts of the batched variant: a blank one, a one-chunk and a
\* two-chunk one
BatchTexts ==
  { <<" ">>,
    <<"h", "i">>,
    <<"a", "b", "c", " ", "d", "e", "f">> }

\* the input texts of the parallel variant: a blank one, one line, and one
\* line followed by a blank line
ParallelTexts ==
  { <<" ">>,
    <<"h", "i">>,
    <<"h", "i", "\n", " ">> }

\* SpecChunk applies chunkText to every text over Alphabet of up to MaxTextLen
\* characters, with every maximal chunk size in 1..MaxChunkBound
MaxTextLen == 6
MaxChunkBound == 3

\* a letter, sentence punctuation, and the two kinds of white space
Alphabet == {"a", ".", " ", "\n"}

ChunkTexts == UNION { [1..n -> Alphabet] : n \in 0..MaxTextLen }

\* the input texts of translateText: blank ones, a one-chunk and a two-chunk one
Texts ==
  { <<>>,
    <<" ", "\n">>,
    <<"h", "i">>,
    <<"a", "b", "c", " ", "d", "e", "f">> }

\* jitter values tried: both ends of [0, JitterRange)
Jitters == {0, JitterRange - 1}

(***************************************************************************)
(* State                                                                   *)
(***************************************************************************)

VARIABLES
  \* translateText
  text,             \* the argument
  tpc,              \* position in translateText
  langIdx,          \* index into Languages of the for-loop
  result,           \* Partial<TranslationResult>: a function on the keys set so far
  errors,           \* errors[]: entries <<language name, message>>
  outcome,          \* how the returned promise settled
  \* withRetry
  rpc,              \* position in withRetry
  maxRetries, baseDelay,
  attempt,
  lastError,
  retValue,         \* value withRetry resolved with
  delay,            \* duration of the setTimeout withRetry is suspended on (0: none)
  opCalls,          \* number of invocations of operation() by this withRetry call
  delaysStarted,    \* number of backoff timers started by this withRetry call
  \* operation (translateWithOpenAI)
  opc,              \* position in the operation
  opValue, opError, \* value / error the operation settled with
  chunks, ci, translatedChunks,
  inflight,         \* chunk indices whose HTTP request is in flight
  okSeen,           \* chunk indices translated at least once in this translateToLanguage call
  waits, requests,  \* limiter waits / HTTP requests of the current translateToLanguage call
  apiKey,           \* import.meta.env.VITE_OPENAI_API_KEY is set
  \* RateLimiter and the flows that share it (SpecRL)
  clock,            \* Date.now(), in ms
  lastCall,         \* RateLimiter.lastCall
  fpc,              \* per flow: "ready", "sleeping" (inside wait()) or "fetching"
  wakeAt,           \* per flow: when the setTimeout of its wait() is due
  prevReturn, lastReturn,  \* times of the two latest returns from wait() (-1: none)
  \* which service module runs translateText
  variant,          \* "openai", "multi" (part_002), "batched" (part_006), "parallel" (part_004),
                    \* "legacy" (withRetry alone), "free" (part_007), "client", "app",
                    \* "freeTimed", "progress", "order", "table", "switch"
  \* chunkText applied on its own (SpecChunk)
  ckText, ckMax,    \* the arguments
  ckpc,             \* "call", then the variant that returned: "openai" or "legacy"
  ckChunks,         \* the returned array
  \* batched free-Google variant (part_006)
  bText,            \* the argument of translateText
  bpc,              \* position in translateText / freeGoogleTranslate
  bBatch,           \* i of the batch loop: index of the batch's first language
  bChunks,          \* chunks of freeGoogleTranslate
  bTask,            \* per language: the translateChunks task
  bResults,         \* results of freeGoogleTranslate
  bOutcome,         \* how the promise of translateText settled
  \* parallel free-Google variant (part_004)
  pText,            \* the argument of translateText
  ppc,              \* position in translateText / freeGoogleTranslate
  pLines,           \* lines of freeGoogleTranslate
  pTask,            \* per language: the translateLines task
  pOutcome,         \* how the promise of translateText settled
  \* sequential free-Google variant with fallback (part_007)
  primaryError,     \* message of the primaryError the operation has caught ("none": none)
  fbCalls,          \* calls of alternativeTranslate for the current chunk
  failedLangs,      \* keys of the languages whose translateChunks call rejected
  \* one call of a provider client of the multi-provider variant (part_002)
  service,          \* the client called: "google", "huggingface" or "groq" ("none": none)
  accepted,         \* the response bodies whose extracted text was pushed, in order
  \* one row of the table of App.tsx
  aEnglish,         \* row.english
  aTranslating,     \* row.isTranslating
  aError,           \* row.error: "none" (undefined), "busy" or "other" (kind of message)
  aShown,           \* row.translations (<<>>: the nine empty strings)
  aTimer,           \* texts captured by the pending debounce timeout (at most one)
  aCalls,           \* per text: translateText calls of translateRow that have not settled
  aRetry,           \* per text: pending automatic retry timeouts
  aFresh,           \* the current text was translated successfully and not edited since
  aStarted,         \* a translateText call for the current text was started since the last edit
  \* translateChunks of the sequential free-Google variant on a clock
  reqPrev, reqLast, \* times at which the two latest HTTP requests were sent (-1: none)
  prAttempts,       \* translateRow attempts of a row: status and progress interval
  prProgress,       \* translationProgress of the row
  languageOrder,    \* the column order of App.tsx
  moves, outOfRange, \* reordering calls made / one of them had an index of no column
  tText,            \* TranslationTable: debouncedText
  tTranslating, tError, \* TranslationTable: isTranslating, error
  tInFlight,        \* translateText calls of TranslationTable that have not settled
  tStats,           \* TranslationTable: statistics
  tCalls,           \* translateText calls TranslationTable has made
  tStarted,         \* those made since the text changed or Retry was clicked
  currentService,   \* the module variable of that name of part_002
  swStart,          \* currentService when translateText was called
  swpc, swLang, swAttempt, \* translateText of part_002: position, language, attempt
  swUsed,           \* the provider translateToLanguage called last
  swDelay           \* the delay between languages set last (-1: none)

ttVars    == <<text, tpc, langIdx, result, errors, outcome>>
retryVars == <<rpc, maxRetries, baseDelay, attempt, lastError, retValue, delay,
               opCalls, delaysStarted>>
opVars    == <<opc, opValue, opError>>
chunkVars == <<chunks, ci, translatedChunks, inflight, okSeen, waits, requests>>
envVars   == <<apiKey>>
rlVars    == <<clock, lastCall, fpc, wakeAt, prevReturn, lastReturn>>
variantVars == <<variant>>
chunkerVars == <<ckText, ckMax, ckpc, ckChunks>>
batchVars == <<bText, bpc, bBatch, bChunks, bTask, bResults, bOutcome>>
parVars   == <<pText, ppc, pLines, pTask, pOutcome>>
freeVars  == <<primaryError, fbCalls, failedLangs>>
clientVars == <<service, accepted>>
appVars   == <<aEnglish, aTranslating, aError, aShown, aTimer, aCalls, aRetry,
               aFresh, aStarted>>
timedVars == <<reqPrev, reqLast>>
progVars  == <<prAttempts, prProgress>>
orderVars == <<languageOrder, moves, outOfRange>>
tableVars == <<tText, tTranslating, tError, tInFlight, tStats, tCalls, tStarted>>
switchVars == <<currentService, swStart, swpc, swLang, swAttempt, swUsed, swDelay>>
laterVars == <<progVars, orderVars, tableVars, switchVars>>
lateVars  == <<timedVars, laterVars>>
\* everything but the groups of laterVars
baseVars  == <<ttVars, retryVars, opVars, chunkVars, envVars, rlVars, variantVars,
               chunkerVars, batchVars, parVars, freeVars, clientVars, appVars,
               timedVars>>
notProgVars  == <<baseVars, orderVars, tableVars, switchVars>>
notOrderVars == <<baseVars, progVars, tableVars, switchVars>>
notTableVars == <<baseVars, progVars, orderVars, switchVars>>
notSwitchVars == <<baseVars, progVars, orderVars, tableVars>>
restVars  == <<freeVars, clientVars, appVars, lateVars>>
extVars   == <<variantVars, chunkerVars, batchVars, parVars, restVars>>
notFreeVars == <<variantVars, chunkerVars, batchVars, parVars, clientVars, appVars, lateVars>>
notClientVars == <<variantVars, chunkerVars, batchVars, parVars, freeVars, appVars, lateVars>>
notAppVars == <<ttVars, retryVars, opVars, chunkVars, envVars, rlVars,
                variantVars, chunkerVars, batchVars, parVars, freeVars, clientVars,
                lateVars>>
vars      == <<ttVars, retryVars, opVars, chunkVars, envVars, rlVars, extVars>>

NoError == [msg |-> "none", id |-> 0]
NoOutcome == [kind |-> "pending", value |-> <<>>, message |-> <<>>]

\* result[key] = value
Assign(res, key, value) ==
  [k \in (DOMAIN res) \cup {key} |-> IF k = key THEN value ELSE res[k]]

EmptyResult == [k \in {} |-> <<>>]

RECURSIVE Pow2(_)
Pow2(n) == IF n <= 0 THEN 1 ELSE 2 * Pow2(n - 1)

\* the values of the limiter variables in the specifications without a clock
LimiterUnused ==
  /\ clock = 0 /\ lastCall = 0 /\ fpc = <<>> /\ wakeAt = <<>>
  /\ prevReturn = -1 /\ lastReturn = -1

\* the values of the variables of chunkText applied on its own, of the batched
\* and of the parallel variant in the specifications that do not run them
ChunkerUnused == ckText = <<>> /\ ckMax = 0 /\ ckpc = "idle" /\ ckChunks = <<>>

BatchUnused ==
  /\ bText = <<>> /\ bpc = "idle" /\ bBatch = 0 /\ bChunks = <<>>
  /\ bTask = <<>> /\ bResults = EmptyResult /\ bOutcome = NoOutcome

ParallelUnused ==
  /\ pText = <<>> /\ ppc = "idle" /\ pLines = <<>> /\ pTask = <<>>
  /\ pOutcome = NoOutcome

\* the values of the variables of the sequential free-Google variant in the
\* specifications that do not run it
FreeUnused == primaryError = "none" /\ fbCalls = 0 /\ failedLangs = {}

\* the values of the variables of a provider client call in the
\* specifications that do not run one
ClientUnused == service = "none" /\ accepted = <<>>

\* the values of the variables of the table row in the specifications
\* without the user interface
AppUnused ==
  /\ aEnglish = <<>> /\ aTranslating = FALSE /\ aError = "none" /\ aShown = <<>>
  /\ aTimer = {} /\ aCalls = <<>> /\ aRetry = <<>>
  /\ aFresh = FALSE /\ aStarted = FALSE

\* no request times are recorded in the specifications without them
TimedUnused == reqPrev = -1 /\ reqLast = -1

\* the values of the progress variables in the specifications without them
ProgUnused == prAttempts = <<>> /\ prProgress = "unused"

\* the values of the column order variables in the specifications without them
OrderUnused == languageOrder = <<>> /\ moves = 0 /\ outOfRange = FALSE

\* the values of the variables of TranslationTable in the specifications
\* without it
TableUnused ==
  /\ tText = <<>> /\ tTranslating = FALSE /\ tError = "unused" /\ tInFlight = 0
  /\ tStats = <<>> /\ tCalls = 0 /\ tStarted = 0

\* the values of the variables of the provider switch in the specifications
\* without it
SwitchUnused ==
  /\ currentService = "unused" /\ swStart = "unused" /\ swpc = "unused"
  /\ swLang = 0 /\ swAttempt = 0 /\ swUsed = "unused" /\ swDelay = -1

LaterUnused == ProgUnused /\ OrderUnused /\ TableUnused /\ SwitchUnused

LateUnused == TimedUnused /\ LaterUnused

RestUnused == FreeUnused /\ ClientUnused /\ AppUnused /\ LateUnused

\* the values of the variables of baseVars, but for variant, in the
\* specifications that run none of them
BaseUnused ==
  /\ text = <<>> /\ apiKey = TRUE
  /\ tpc = "detached" /\ langIdx = 1 /\ result = <<>> /\ errors = <<>>
  /\ outcome = <<>>
  /\ rpc = "idle" /\ maxRetries = 0 /\ baseDelay = 0 /\ attempt = 0
  /\ lastError = <<>> /\ retValue = <<>> /\ delay = 0
  /\ opCalls = 0 /\ delaysStarted = 0
  /\ opc = "idle" /\ opValue = <<>> /\ opError = <<>>
  /\ chunks = <<>> /\ ci = 0 /\ translatedChunks = <<>>
  /\ inflight = {} /\ okSeen = {} /\ waits = 0 /\ requests = 0
  /\ LimiterUnused /\ ChunkerUnused /\ BatchUnused /\ ParallelUnused
  /\ FreeUnused /\ ClientUnused /\ AppUnused /\ TimedUnused

\* the values of the variables of the sequential translateText, of withRetry
\* and of translateWithOpenAI in the specifications that do not run them
SequentialUnused ==
  /\ text = <<>> /\ apiKey = TRUE
  /\ tpc = "detached" /\ langIdx = 1 /\ result = EmptyResult /\ errors = <<>>
  /\ outcome = NoOutcome
  /\ rpc = "idle" /\ maxRetries = 0 /\ baseDelay = 0 /\ attempt = 0
  /\ lastError = NoError /\ retValue = <<>> /\ delay = 0
  /\ opCalls = 0 /\ delaysStarted = 0
  /\ opc = "idle" /\ opValue = <<>> /\ opError = NoError
  /\ chunks = <<>> /\ ci = 0 /\ translatedChunks = <<>>
  /\ inflight = {} /\ okSeen = {} /\ waits = 0 /\ requests = 0

(***************************************************************************)
(* withRetry (translationService.ts:60-86)                                 *)
(***************************************************************************)

\* mutant of DelayNeeded: a delay before the first attempt too
DelayNeededAlways(att) == TRUE

\* if (attempt > 0)                                         line 69
DelayNeeded(att) == att > 0

\* mutant of BackoffDelay: linear backoff (the schedule of the free variants)
BackoffDelayLinear(base, att, jitter) == base * att + jitter

\* baseDelay * Math.pow(2, attempt - 1) + Math.random() * 1000   line 70
BackoffDelay(base, att, jitter) == base * Pow2(att - 1) + jitter

\* mutant of CaughtError: the first error is kept
CaughtErrorKeepFirst(previous, error) == IF previous = NoError THEN error ELSE previous

\* lastError = error as Error                               line 76
CaughtError(previous, error) == error

\* mutant of RetryExhausted: one attempt more before giving up
RetryExhaustedLate(att, maxR) == att = maxR + 1

\* if (attempt === maxRetries) break                        line 79
RetryExhausted(att, maxR) == att = maxR

\* the locals of an operation that has settled are unreachable
OpLocalsDropped == chunks' = <<>> /\ ci' = 0 /\ translatedChunks' = <<>>

\* the locals of a withRetry call that has not started or has been consumed
RetryIdle(pc) ==
  /\ rpc' = pc
  /\ maxRetries' = 0 /\ baseDelay' = 0 /\ attempt' = 0
  /\ lastError' = NoError /\ retValue' = <<>> /\ delay' = 0
  /\ opCalls' = 0 /\ delaysStarted' = 0

\* withRetry(operation, maxR, base) is called
RetryCall(maxR, base) ==
  /\ rpc' = "loop"
  /\ maxRetries' = maxR /\ baseDelay' = base /\ attempt' = 0
  /\ lastError' = NoError /\ retValue' = <<>> /\ delay' = 0
  /\ opCalls' = 0 /\ delaysStarted' = 0

\* loop head with attempt > 0: the backoff timer is started     lines 69-71
RetryBackoff ==
  /\ rpc = "loop" /\ DelayNeeded(attempt)
  /\ \E jitter \in Jitters : delay' = BackoffDelay(baseDelay, attempt, jitter)
  /\ rpc' = "delay"
  /\ delaysStarted' = delaysStarted + 1
  /\ UNCHANGED <<maxRetries, baseDelay, attempt, lastError, retValue, opCalls>>
  /\ UNCHANGED <<ttVars, opVars, chunkVars, envVars, rlVars, extVars>>

\* loop head of attempt 0: operation() is invoked at once       line 74
RetryInvokeFirst ==
  /\ rpc = "loop" /\ ~DelayNeeded(attempt)
  /\ rpc' = "op" /\ opc' = "called"
  /\ opCalls' = opCalls + 1
  /\ UNCHANGED <<maxRetries, baseDelay, attempt, lastError, retValue, delay, delaysStarted>>
  /\ UNCHANGED <<ttVars, opValue, opError, chunkVars, envVars, rlVars, extVars>>

\* the backoff timer fires: operation() is invoked              line 74
RetryInvokeAfterDelay ==
  /\ rpc = "delay"
  /\ rpc' = "op" /\ opc' = "called"
  /\ delay' = 0
  /\ opCalls' = opCalls + 1
  /\ UNCHANGED <<maxRetries, baseDelay, attempt, lastError, retValue, delaysStarted>>
  /\ UNCHANGED <<ttVars, opValue, opError, chunkVars, envVars, rlVars, extVars>>

\* return await operation(): the operation resolved             line 74
RetryReturn ==
  /\ rpc = "op" /\ opc = "resolved"
  /\ rpc' = "resolved"
  /\ retValue' = opValue
  /\ opc' = "idle" /\ opValue' = <<>> /\ opError' = NoError
  /\ OpLocalsDropped
  /\ UNCHANGED <<maxRetries, baseDelay, attempt, lastError, delay, opCalls, delaysStarted>>
  /\ UNCHANGED <<ttVars, inflight, okSeen, waits, requests, envVars, rlVars, extVars>>

\* catch (error) { ... }, then the next attempt or throw lastError   lines 75-85
RetryCatch ==
  /\ rpc = "op" /\ opc = "rejected"
  /\ lastError' = CaughtError(lastError, opError)
  /\ IF RetryExhausted(attempt, maxRetries)
     THEN rpc' = "rejected" /\ attempt' = attempt
     ELSE rpc' = "loop" /\ attempt' = attempt + 1
  /\ opc' = "idle" /\ opValue' = <<>> /\ opError' = NoError
  /\ OpLocalsDropped
  /\ UNCHANGED <<maxRetries, baseDelay, retValue, delay, opCalls, delaysStarted>>
  /\ UNCHANGED <<ttVars, inflight, okSeen, waits, requests, envVars, rlVars, extVars>>

RetryNext ==
  \/ RetryBackoff \/ RetryInvokeFirst \/ RetryInvokeAfterDelay
  \/ RetryReturn \/ RetryCatch

(***************************************************************************)
(* translateWithOpenAI (translationService.ts:167-220)                     *)
(***************************************************************************)

\* the language the for-loop of translateText is at
CurrentLang == Languages[langIdx]

\* The provider's translation of a chunk: the language code followed by the
\* chunk (any non-blank string that identifies language and chunk will do).
Translated(code, chunk) == <<code>> \o chunk

\* What the provider may answer to the request for a chunk: the request fails
\* (fetch rejects or the status is not 2xx: either way the await throws inside
\* the operation), or a 2xx body whose choices[0].message.content is the
\* translation (possibly padded with white space), blank, or missing.
FetchOutcomes(code, chunk) ==
  { [kind |-> "http", content |-> <<>>] }
  \cup
  { [kind |-> "body", content |-> c] :
      c \in { Translated(code, chunk),
              <<" ">> \o Translated(code, chunk) \o <<"\n">>,
              <<" ", "\n">>,
              <<>> } }

\* new Error(...): a fresh object per throw, told apart by the invocation
\* of the operation that threw it
NewError(message) == [msg |-> message, id |-> opCalls]

\* mutant of JoinTranslated: the chunks are joined last to first
JoinTranslatedReversed(parts) ==
  Join([i \in 1..Len(parts) |-> parts[Len(parts) + 1 - i]], <<" ">>)

\* translatedChunks.join(' ')                               line 219
JoinTranslated(parts) == Join(parts, <<" ">>)

\* translateWithOpenAI is entered: chunkText, then the first
\* "await openaiRateLimiter.wait()"                         lines 168-172
OpenAIStart ==
  /\ tpc = "awaitLang" /\ opc = "called"
  /\ chunks' = chunkText(text, ChunkSize)
  /\ translatedChunks' = <<>>
  /\ ci' = 1
  /\ opc' = "wait"
  /\ waits' = waits + 1
  /\ UNCHANGED <<inflight, okSeen, requests, opValue, opError>>
  /\ UNCHANGED <<ttVars, retryVars, envVars, rlVars, extVars>>

\* wait() has returned: the request for chunk ci is built and sent,
\* unless getOpenAIApiKey() throws                          lines 174-202, 158-164
OpenAISend ==
  /\ opc = "wait"
  /\ IF apiKey
     THEN /\ opc' = "fetch"
          /\ inflight' = inflight \cup {ci}
          /\ requests' = requests + 1
          /\ UNCHANGED <<opError>>
     ELSE /\ opc' = "rejected"
          /\ opError' = NewError("OpenAI API key not found")
          /\ UNCHANGED <<inflight, requests>>
  /\ UNCHANGED <<opValue, chunks, ci, translatedChunks, okSeen, waits>>
  /\ UNCHANGED <<ttVars, retryVars, envVars, rlVars, extVars>>

\* the request for chunk ci fails: the operation throws     lines 178, 204-214
OpenAIChunkFails ==
  /\ opc = "fetch"
  /\ \E r \in FetchOutcomes(LANGUAGE_CODES[CurrentLang].code, chunks[ci]) :
       /\ r.kind # "body" \/ Trim(r.content) = <<>>
       /\ opError' = NewError(IF r.kind = "http" THEN "OpenAI API error"
                               ELSE "Empty response from OpenAI API")
  /\ opc' = "rejected"
  /\ inflight' = inflight \ {ci}
  /\ UNCHANGED <<opValue, chunks, ci, translatedChunks, okSeen, waits, requests>>
  /\ UNCHANGED <<ttVars, retryVars, envVars, rlVars, extVars>>

\* the request for chunk ci returns a translation: it is pushed, and the
\* loop goes on to the next chunk's wait() or returns the join   lines 209-219
OpenAIChunkDone ==
  /\ opc = "fetch"
  /\ \E r \in FetchOutcomes(LANGUAGE_CODES[CurrentLang].code, chunks[ci]) :
       /\ r.kind = "body" /\ Trim(r.content) # <<>>
       /\ translatedChunks' = Append(translatedChunks, Trim(r.content))
  /\ inflight' = inflight \ {ci}
  /\ okSeen' = okSeen \cup {ci}
  /\ IF ci < Len(chunks)
     THEN /\ ci' = ci + 1
          /\ opc' = "wait"
          /\ waits' = waits + 1
          /\ UNCHANGED <<opValue>>
     ELSE /\ opc' = "resolved"
          /\ opValue' = JoinTranslated(translatedChunks')
          /\ UNCHANGED <<ci, waits>>
  /\ UNCHANGED <<opError, chunks, requests>>
  /\ UNCHANGED <<ttVars, retryVars, envVars, rlVars, extVars>>

OpenAINext == OpenAIStart \/ OpenAISend \/ OpenAIChunkFails \/ OpenAIChunkDone

(***************************************************************************)
(* translateText (translationService.ts:236-283)                           *)
(***************************************************************************)

\* mutant of IsBlank: the text is not trimmed before the test
IsBlankNoTrim(t) == t = <<>>

\* !text.trim()                                             line 239
IsBlank(t) == Trim(t) = <<>>

\* mutant of AllFailed: any failure rejects the whole call
AllFailedAny(errs) == Len(errs) > 0

\* errors.length === languages.length                       line 271
AllFailed(errs) == Len(errs) = Len(Languages)

\* `${LANGUAGE_CODES[lang].name}: ${errorMsg}`              line 264
ErrorEntry(lang, err) == <<LANGUAGE_CODES[lang].name, ": ", err.msg>>

\* mutant of AggregateMessage: only the first language's error is reported
AggregateMessageFirstOnly(errs) ==
  <<"All translations failed. Errors: ">> \o (IF errs = <<>> THEN <<>> ELSE errs[1])

\* `All translations failed. Errors: ${errors.join('; ')}`  line 272
AggregateMessage(errs) == <<"All translations failed. Errors: ">> \o Join(errs, <<"; ">>)

\* mutant of AfterFailure: the catch block leaves the key unset
AfterFailureNoEntry(res, lang) == res

\* mutant of AfterFailure: a placeholder text instead of the empty string
AfterFailurePlaceholder(res, lang) == Assign(res, lang, <<"[Translation failed]">>)

\* mutant of AfterFailure: the catch block starts result over
AfterFailureErase(res, lang) == Assign(EmptyResult, lang, <<>>)

\* result[lang] = ''                                        line 265
AfterFailure(res, lang) == Assign(res, lang, <<>>)

Settled(k, v, m) == [kind |-> k, value |-> v, message |-> m]

\* the blank check, then the setup of the loop              lines 239-245
TranslateTextStart ==
  /\ tpc = "start"
  /\ IF IsBlank(text)
     THEN /\ tpc' = "rejected"
          /\ outcome' = Settled("rejected", EmptyResult, <<"No text provided for translation">>)
     ELSE /\ tpc' = "loop"
          /\ outcome' = outcome
  /\ langIdx' = 1 /\ result' = EmptyResult /\ errors' = <<>>
  /\ UNCHANGED <<text, retryVars, opVars, chunkVars, envVars, rlVars, extVars>>

\* an iteration of the for-loop: translateToLanguage(text, lang) calls
\* withRetry(() => translateWithOpenAI(...), 2, 1000)       lines 248-252, 223-228
TranslateLanguage ==
  /\ tpc = "loop" /\ langIdx <= Len(Languages)
  /\ tpc' = "awaitLang"
  /\ RetryCall(OpenAIMaxRetries, OpenAIBaseDelay)
  /\ UNCHANGED <<text, langIdx, result, errors, outcome, opVars, chunkVars, envVars, rlVars, extVars>>

\* translateToLanguage resolved: the translation is stored; a 500 ms
\* delay follows unless this was the last language          lines 253-260
LanguageDone ==
  /\ tpc = "awaitLang" /\ rpc = "resolved"
  /\ result' = Assign(result, CurrentLang, retValue)
  /\ IF langIdx < Len(Languages)
     THEN tpc' = "langDelay" /\ langIdx' = langIdx
     ELSE tpc' = "loop" /\ langIdx' = langIdx + 1
  /\ RetryIdle("idle")
  /\ okSeen' = {} /\ waits' = 0 /\ requests' = 0
  /\ UNCHANGED <<text, errors, outcome, opVars, chunks, ci, translatedChunks, inflight, envVars, rlVars, extVars>>

\* the 500 ms delay between two languages is over           line 259
LanguageDelayDone ==
  /\ tpc = "langDelay"
  /\ tpc' = "loop" /\ langIdx' = langIdx + 1
  /\ UNCHANGED <<text, result, errors, outcome, retryVars, opVars, chunkVars, envVars, rlVars, extVars>>

\* translateToLanguage rejected: the catch block            lines 262-267
LanguageFailed ==
  /\ tpc = "awaitLang" /\ rpc = "rejected"
  /\ errors' = Append(errors, ErrorEntry(CurrentLang, lastError))
  /\ result' = AfterFailure(result, CurrentLang)
  /\ tpc' = "loop" /\ langIdx' = langIdx + 1
  /\ RetryIdle("idle")
  /\ okSeen' = {} /\ waits' = 0 /\ requests' = 0
  /\ UNCHANGED <<text, outcome, opVars, chunks, ci, translatedChunks, inflight, envVars, rlVars, extVars>>

\* after the loop: reject if every language failed, else return result   lines 271-282
TranslateTextFinish ==
  /\ tpc = "loop" /\ langIdx > Len(Languages)
  /\ IF AllFailed(errors)
     THEN /\ tpc' = "rejected"
          /\ outcome' = Settled("rejected", EmptyResult, AggregateMessage(errors))
     ELSE /\ tpc' = "resolved"
          /\ outcome' = Settled("resolved", result, <<>>)
  /\ UNCHANGED <<text, langIdx, result, errors, retryVars, opVars, chunkVars, envVars, rlVars, extVars>>

TranslateTextNext ==
  \/ TranslateTextStart \/ TranslateLanguage \/ LanguageDone
  \/ LanguageDelayDone \/ LanguageFailed \/ TranslateTextFinish

(***************************************************************************)
(* Spec: one translateText call of the OpenAI variant                      *)
(***************************************************************************)

Init ==
  /\ text \in Texts
  /\ apiKey \in BOOLEAN
  /\ tpc = "start" /\ langIdx = 1 /\ result = EmptyResult /\ errors = <<>>
  /\ outcome = NoOutcome
  /\ rpc = "idle" /\ maxRetries = 0 /\ baseDelay = 0 /\ attempt = 0
  /\ lastError = NoError /\ retValue = <<>> /\ delay = 0
  /\ opCalls = 0 /\ delaysStarted = 0
  /\ opc = "idle" /\ opValue = <<>> /\ opError = NoError
  /\ chunks = <<>> /\ ci = 0 /\ translatedChunks = <<>>
  /\ inflight = {} /\ okSeen = {} /\ waits = 0 /\ requests = 0
  /\ LimiterUnused
  /\ variant = "openai" /\ ChunkerUnused /\ BatchUnused /\ ParallelUnused /\ RestUnused

Next == TranslateTextNext \/ RetryNext \/ OpenAINext

Spec == Init /\ [][Next]_vars

(***************************************************************************)
(* SpecLive: the translateText call of Spec when every request that was    *)
(* sent is answered and every timer that was set fires: the call is one    *)
(* sequential flow, so at any time exactly one step is pending and weak    *)
(* fairness says that it eventually happens.  Weak fairness of OpenAIStart *)
(* is spelled out with its enabling condition: the step is enabled exactly *)
(* when translateWithOpenAI has been called and has not yet run.           *)
(* Texts of one chunk are followed from the call of translateText; to keep *)
(* the graph small a text of several chunks is followed from the iteration *)
(* of the loop for language LiveJoin + 1, the earlier languages having     *)
(* been translated at the first attempt.                                   *)
(***************************************************************************)

\* languages already translated when a text of several chunks is taken up
LiveJoin == 2

\* result after the first k languages were translated at the first attempt
ResultAfter(t, k) ==
  LET cs == chunkText(t, ChunkSize)
  IN [l \in { Languages[i] : i \in 1..k } |->
        JoinTranslated([i \in 1..Len(cs) |-> Translated(LANGUAGE_CODES[l].code, cs[i])])]

\* the call at the head of the loop for language LiveJoin + 1: the locals of
\* the iterations before are gone                             lines 246-260
LoopHead(t, k) ==
  /\ text = t /\ apiKey = TRUE
  /\ tpc = "loop" /\ langIdx = k + 1 /\ result = ResultAfter(t, k) /\ errors = <<>>
  /\ outcome = NoOutcome
  /\ rpc = "idle" /\ maxRetries = 0 /\ baseDelay = 0 /\ attempt = 0
  /\ lastError = NoError /\ retValue = <<>> /\ delay = 0
  /\ opCalls = 0 /\ delaysStarted = 0
  /\ opc = "idle" /\ opValue = <<>> /\ opError = NoError
  /\ chunks = <<>> /\ ci = 0 /\ translatedChunks = <<>>
  /\ inflight = {} /\ okSeen = {} /\ waits = 0 /\ requests = 0
  /\ LimiterUnused
  /\ variant = "openai" /\ ChunkerUnused /\ BatchUnused /\ ParallelUnused /\ RestUnused

InitLive ==
  \/ Init /\ Len(text) <= ChunkSize
  \/ \E t \in Texts : Len(t) > ChunkSize /\ LoopHead(t, LiveJoin)

\* the steps that wait for a response, a timer or a continuation
LiveSteps ==
  \/ TranslateTextNext \/ RetryNext
  \/ OpenAISend \/ OpenAIChunkFails \/ OpenAIChunkDone

\* ENABLED <<OpenAIStart>>_vars
OpenAIStartEnabled == tpc = "awaitLang" /\ opc = "called"

SpecLive ==
  /\ InitLive /\ [][Next]_vars
  /\ WF_vars(LiveSteps)
  /\ ([]<>(~OpenAIStartEnabled) \/ []<><<OpenAIStart>>_vars)

(***************************************************************************)
(* SpecRetry: withRetry(operation, maxRetries, baseDelay) around an        *)
(* operation that resolves or throws at will                               *)
(***************************************************************************)

\* operation() settles: it resolves with a value or throws a new Error
AbstractOperation ==
  /\ tpc = "detached" /\ opc = "called"
  /\ \/ /\ opc' = "resolved"
        /\ opValue' = <<"v", opCalls>>
        /\ opError' = NoError
     \/ /\ opc' = "rejected"
        /\ \E m \in {"E1", "E2"} : opError' = NewError(m)
        /\ opValue' = <<>>
  /\ UNCHANGED <<ttVars, retryVars, chunkVars, envVars, rlVars, extVars>>

InitRetry ==
  /\ text = <<>> /\ apiKey = TRUE
  /\ tpc = "detached" /\ langIdx = 1 /\ result = EmptyResult /\ errors = <<>>
  /\ outcome = NoOutcome
  /\ rpc = "loop" /\ maxRetries \in 0..MaxRetriesBound /\ baseDelay = OpenAIBaseDelay
  /\ attempt = 0 /\ lastError = NoError /\ retValue = <<>> /\ delay = 0
  /\ opCalls = 0 /\ delaysStarted = 0
  /\ opc = "idle" /\ opValue = <<>> /\ opError = NoError
  /\ chunks = <<>> /\ ci = 0 /\ translatedChunks = <<>>
  /\ inflight = {} /\ okSeen = {} /\ waits = 0 /\ requests = 0
  /\ LimiterUnused
  /\ variant = "openai" /\ ChunkerUnused /\ BatchUnused /\ ParallelUnused /\ RestUnused

NextRetry == RetryNext \/ AbstractOperation

SpecRetry == InitRetry /\ [][NextRetry]_vars

(***************************************************************************)
(* RateLimiter.wait (translationService.ts:36-55) and SpecRL               *)
(*                                                                         *)
(* The flows are chunk loops (translateWithOpenAI, lines 171-178) of       *)
(* translateText calls that run at the same time, as App.tsx starts them   *)
(* for several rows; all of them use the module's one openaiRateLimiter.   *)
(***************************************************************************)

Flows == 1..NFlows

\* mutant of MustWait: the limiter never suspends its caller
MustWaitNever(now, last, interval) == FALSE

\* timeSinceLastCall < this.interval                         line 48
MustWait(now, last, interval) == now - last < interval

\* waitTime = this.interval - timeSinceLastCall              line 49
WaitTime(now, last, interval) == interval - (now - last)

\* wait() returns to its caller at time t
Returned(t) == prevReturn' = lastReturn /\ lastReturn' = t

\* wait() is called: it reads the clock and lastCall, then either suspends
\* on setTimeout or sets lastCall and returns                lines 45-53
WaitCall(f) ==
  /\ fpc[f] = "ready"
  /\ IF MustWait(clock, lastCall, OpenAIInterval)
     THEN /\ fpc' = [fpc EXCEPT ![f] = "sleeping"]
          /\ wakeAt' = [wakeAt EXCEPT ![f] = clock + WaitTime(clock, lastCall, OpenAIInterval)]
          /\ UNCHANGED <<lastCall, prevReturn, lastReturn>>
     ELSE /\ lastCall' = clock
          /\ fpc' = [fpc EXCEPT ![f] = "fetching"]
          /\ Returned(clock)
          /\ UNCHANGED wakeAt
  /\ UNCHANGED <<clock, ttVars, retryVars, opVars, chunkVars, envVars, extVars>>

\* the setTimeout of a suspended wait() fires (never early): lastCall is set
\* and wait() returns                                        lines 50-53
WaitWake(f) ==
  /\ fpc[f] = "sleeping" /\ clock >= wakeAt[f]
  /\ lastCall' = clock
  /\ fpc' = [fpc EXCEPT ![f] = "fetching"]
  /\ wakeAt' = [wakeAt EXCEPT ![f] = 0]
  /\ Returned(clock)
  /\ UNCHANGED <<clock, ttVars, retryVars, opVars, chunkVars, envVars, extVars>>

\* the request that followed wait() has completed: the flow is about to call
\* wait() again, for its next chunk or its next attempt      lines 171-172
FetchCompletes(f) ==
  /\ fpc[f] = "fetching"
  /\ fpc' = [fpc EXCEPT ![f] = "ready"]
  /\ UNCHANGED <<clock, lastCall, wakeAt, prevReturn, lastReturn>>
  /\ UNCHANGED <<ttVars, retryVars, opVars, chunkVars, envVars, extVars>>

\* time passes
Tick ==
  /\ clock + TickMs <= MaxClock
  /\ clock' = clock + TickMs
  /\ UNCHANGED <<lastCall, fpc, wakeAt, prevReturn, lastReturn>>
  /\ UNCHANGED <<ttVars, retryVars, opVars, chunkVars, envVars, extVars>>

InitRL ==
  /\ clock = StartTime /\ lastCall = 0
  /\ fpc = [f \in Flows |-> "ready"] /\ wakeAt = [f \in Flows |-> 0]
  /\ prevReturn = -1 /\ lastReturn = -1
  /\ text = <<>> /\ apiKey = TRUE
  /\ tpc = "detached" /\ langIdx = 1 /\ result = EmptyResult /\ errors = <<>>
  /\ outcome = NoOutcome
  /\ rpc = "idle" /\ maxRetries = 0 /\ baseDelay = 0 /\ attempt = 0
  /\ lastError = NoError /\ retValue = <<>> /\ delay = 0
  /\ opCalls = 0 /\ delaysStarted = 0
  /\ opc = "idle" /\ opValue = <<>> /\ opError = NoError
  /\ chunks = <<>> /\ ci = 0 /\ translatedChunks = <<>>
  /\ inflight = {} /\ okSeen = {} /\ waits = 0 /\ requests = 0
  /\ variant = "openai" /\ ChunkerUnused /\ BatchUnused /\ ParallelUnused /\ RestUnused

NextRL ==
  \/ \E f \in Flows : WaitCall(f)
  \/ \E f \in Flows : WaitWake(f)
  \/ \E f \in Flows : FetchCompletes(f)
  \/ Tick

SpecRL == InitRL /\ [][NextRL]_vars

(***************************************************************************)
(* SpecSingleCaller: RateLimiter.wait called by one sequential caller, the *)
(* chunk loop of a translateText call that runs alone                      *)
(***************************************************************************)

\* the one flow of a translateText call with no other call in flight
SingleCaller == 1

InitSingleCaller ==
  /\ clock = StartTime /\ lastCall = 0
  /\ fpc = [f \in {SingleCaller} |-> "ready"]
  /\ wakeAt = [f \in {SingleCaller} |-> 0]
  /\ prevReturn = -1 /\ lastReturn = -1
  /\ SequentialUnused
  /\ variant = "openai" /\ ChunkerUnused /\ BatchUnused /\ ParallelUnused /\ RestUnused

NextSingleCaller ==
  \/ WaitCall(SingleCaller)
  \/ WaitWake(SingleCaller)
  \/ FetchCompletes(SingleCaller)
  \/ Tick

SpecSingleCaller == InitSingleCaller /\ [][NextSingleCaller]_vars

(***************************************************************************)
(* Multi-provider variant (src/unnamed/part_002): translateText runs the   *)
(* same loop around withRetry(() => translateToLanguage(text, lang), 3,    *)
(* 1000); translateToLanguage calls the client of the current service      *)
(***************************************************************************)

\* withRetry(..., 3, 1000)                                    part_002:421-425
MultiMaxRetries == 3
MultiBaseDelay == 1000

\* an iteration of the for-loop                               part_002:417-425
MultiTranslateLanguage ==
  /\ tpc = "loop" /\ langIdx <= Len(Languages)
  /\ tpc' = "awaitLang"
  /\ RetryCall(MultiMaxRetries, MultiBaseDelay)
  /\ UNCHANGED <<text, langIdx, result, errors, outcome, opVars, chunkVars, envVars, rlVars, extVars>>

\* the message of the Error translateToLanguage rethrows      part_002:399-400
FailedToTranslate(lang, message) ==
  <<"Failed to translate to ", LANGUAGE_CODES[lang].name, ": ", message>>

\* translateToLanguage(text, lang) settles: the provider client returned a
\* translation (an empty one is returned as it is), or it threw and the
\* error is rethrown with the language's name                 part_002:376-402
ProviderOperation ==
  /\ tpc = "awaitLang" /\ opc = "called"
  /\ \/ /\ opc' = "resolved"
        /\ opValue' \in {Translated(LANGUAGE_CODES[CurrentLang].code, text), <<>>}
        /\ opError' = NoError
     \/ /\ opc' = "rejected"
        /\ opError' = NewError(FailedToTranslate(CurrentLang, "Rate limited"))
        /\ opValue' = <<>>
  /\ UNCHANGED <<ttVars, retryVars, chunkVars, envVars, rlVars, extVars>>

InitMulti ==
  /\ text \in Texts
  /\ apiKey = TRUE
  /\ tpc = "start" /\ langIdx = 1 /\ result = EmptyResult /\ errors = <<>>
  /\ outcome = NoOutcome
  /\ rpc = "idle" /\ maxRetries = 0 /\ baseDelay = 0 /\ attempt = 0
  /\ lastError = NoError /\ retValue = <<>> /\ delay = 0
  /\ opCalls = 0 /\ delaysStarted = 0
  /\ opc = "idle" /\ opValue = <<>> /\ opError = NoError
  /\ chunks = <<>> /\ ci = 0 /\ translatedChunks = <<>>
  /\ inflight = {} /\ okSeen = {} /\ waits = 0 /\ requests = 0
  /\ LimiterUnused
  /\ variant = "multi" /\ ChunkerUnused /\ BatchUnused /\ ParallelUnused /\ RestUnused

NextMulti ==
  \/ TranslateTextStart \/ MultiTranslateLanguage \/ LanguageDone
  \/ LanguageDelayDone \/ LanguageFailed \/ TranslateTextFinish
  \/ RetryNext \/ ProviderOperation

(***************************************************************************)
(* SpecSequential: one translateText call of either sequential variant     *)
(***************************************************************************)

InitSequential == Init \/ InitMulti

NextSequential ==
  \/ variant = "openai" /\ Next
  \/ variant = "multi" /\ NextMulti

SpecSequential == InitSequential /\ [][NextSequential]_vars

(***************************************************************************)
(* SpecChunk: chunkText applied to a text, in either of its two variants   *)
(***************************************************************************)

\* chunkText of translationService.ts:89-155 (the same in part_002:141-198)
ChunkTextCall ==
  /\ ckpc = "call"
  /\ ckChunks' = chunkText(ckText, ckMax)
  /\ ckpc' = "openai"
  /\ UNCHANGED <<ckText, ckMax, variantVars, batchVars, parVars, restVars>>
  /\ UNCHANGED <<ttVars, retryVars, opVars, chunkVars, envVars, rlVars>>

\* chunkText of part_007:36-110 and part_006:1718-1792
LegacyChunkTextCall ==
  /\ ckpc = "call"
  /\ ckChunks' = chunkTextLegacy(ckText, ckMax)
  /\ ckpc' = "legacy"
  /\ UNCHANGED <<ckText, ckMax, variantVars, batchVars, parVars, restVars>>
  /\ UNCHANGED <<ttVars, retryVars, opVars, chunkVars, envVars, rlVars>>

InitChunk ==
  /\ ckText \in ChunkTexts /\ ckMax \in 1..MaxChunkBound
  /\ ckpc = "call" /\ ckChunks = <<>>
  /\ SequentialUnused /\ LimiterUnused
  /\ variant = "openai" /\ BatchUnused /\ ParallelUnused /\ RestUnused

NextChunk == ChunkTextCall \/ LegacyChunkTextCall

SpecChunk == InitChunk /\ [][NextChunk]_vars

(***************************************************************************)
(* SpecBatch: one translateText call of the batched free-Google variant    *)
(* (src/unnamed/part_006:1819-1943, 2044-2070)                             *)
(*                                                                         *)
(* The continuation of an await runs in the same step as the settling that *)
(* wakes it: promise reactions are microtasks, and no timer or response    *)
(* handler runs between them.                                              *)
(***************************************************************************)

\* const batchSize = 3                                       part_006:1907
BatchSize == 3

\* withRetry(operation, maxRetries = 3, delayMs = 1000): the operation is
\* invoked at most maxRetries times                          part_006:1797, 1802
LegacyMaxAttempts == 3

notBatchVars ==
  <<ttVars, retryVars, opVars, chunkVars, envVars, rlVars,
    variantVars, chunkerVars, parVars, restVars>>

\* a translateChunks(lang.code) task that was not started
IdleTask ==
  [pc |-> "idle", ci |-> 0, attempt |-> 0, parts |-> <<>>,
   error |-> "none", value |-> <<>>]

\* translateChunks from the head of its loop, up to its next await: blank
\* chunks are pushed as they are; the task then awaits the rate limiter for
\* chunk ci, or returns translatedChunks.join('\n')          part_006:1827-1834, 1890
RECURSIVE ChunksLoop(_, _)
ChunksLoop(task, cs) ==
  IF task.ci > Len(cs)
  THEN [task EXCEPT !.pc = "resolved", !.value = Join(task.parts, <<"\n">>)]
  ELSE IF Trim(cs[task.ci]) = <<>>
  THEN ChunksLoop([task EXCEPT !.parts = Append(@, cs[task.ci]), !.ci = @ + 1], cs)
  ELSE [task EXCEPT !.pc = "limiter", !.attempt = 0]

\* languages.slice(i, i + batchSize)                         part_006:1911
\* every language not yet launched, whatever the batch size
BatchLangsRest(i) ==
  { Languages[k] : k \in { j \in 1..Len(Languages) : i < j } }

BatchLangs(i) ==
  { Languages[k] : k \in { j \in 1..Len(Languages) : i < j /\ j <= i + BatchSize } }

\* batch.map(lang => translateChunks(lang.code)...)          part_006:1912-1914
LaunchBatch(tasks, i, cs) ==
  [l \in LanguageKeys |->
     IF l \in BatchLangs(i) THEN ChunksLoop([IdleTask EXCEPT !.ci = 1], cs)
     ELSE tasks[l]]

\* the message freeGoogleTranslate's catch block throws      part_006:1927-1941
ClassifiedMessage(message) ==
  IF message = "Rate limited, retrying..."
  THEN "Translation service is temporarily busy. Please wait a moment and try again."
  ELSE "Translation service temporarily unavailable. Please try again in a moment."

\* await Promise.all(batchPromises) and what follows it: rejected by the
\* first task that rejects (the catch block then rethrows and translateText
\* rejects); resolved when every task of the batch resolved: the results are
\* merged and, after the last batch, returned                 part_006:1916-1941
BatchJoin(tasks, i, awaiting, pcPending) ==
  IF ~awaiting
  THEN UNCHANGED <<bpc, bResults, bOutcome>>
  ELSE IF \E l \in BatchLangs(i) : tasks[l].pc = "rejected"
  THEN LET l == CHOOSE k \in BatchLangs(i) : tasks[k].pc = "rejected" IN
       /\ bpc' = "rejected"
       /\ bOutcome' = Settled("rejected", <<>>, <<ClassifiedMessage(tasks[l].error)>>)
       /\ UNCHANGED bResults
  ELSE IF \A l \in BatchLangs(i) : tasks[l].pc = "resolved"
  THEN LET merged == [k \in (DOMAIN bResults) \cup BatchLangs(i) |->
                        IF k \in BatchLangs(i) THEN tasks[k].value ELSE bResults[k]] IN
       /\ bResults' = merged
       /\ IF i + BatchSize < Len(Languages)
          THEN bpc' = "batchDelay" /\ UNCHANGED bOutcome
          ELSE bpc' = "resolved" /\ bOutcome' = Settled("resolved", merged, <<>>)
  ELSE bpc' = pcPending /\ UNCHANGED <<bResults, bOutcome>>

\* translateText(text): a blank text resolves with nine empty strings;
\* otherwise freeGoogleTranslate chunks the text and launches the first
\* batch                                                      part_006:2044-2062, 1821, 1910-1916
BatchTranslateText ==
  /\ bpc = "start"
  /\ IF Trim(bText) = <<>>
     THEN /\ bpc' = "resolved"
          /\ bOutcome' = Settled("resolved", [k \in LanguageKeys |-> <<>>], <<>>)
          /\ UNCHANGED <<bBatch, bChunks, bTask, bResults>>
     ELSE /\ bChunks' = chunkTextLegacy(bText, LegacyChunkLimit)
          /\ bBatch' = 0
          /\ bTask' = LaunchBatch(bTask, 0, bChunks')
          /\ BatchJoin(bTask', 0, TRUE, "awaitBatch")
  /\ UNCHANGED <<bText, notBatchVars>>

\* rateLimiter.waitIfNeeded() returned: withRetry invokes the operation for
\* the first time, which sends the request                    part_006:1834-1850
BatchLimiterReturns(l) ==
  /\ bTask[l].pc = "limiter"
  /\ bTask' = [bTask EXCEPT ![l].pc = "fetch", ![l].attempt = 1]
  /\ UNCHANGED <<bText, bpc, bBatch, bChunks, bResults, bOutcome, notBatchVars>>

\* the response is a translation: withRetry returns it (its locals are
\* gone with it), the chunk loop goes on                      part_006:1868-1890
BatchFetchOk(l) ==
  /\ bTask[l].pc = "fetch"
  /\ LET t == bTask[l]
         piece == Translated(LANGUAGE_CODES[l].code, bChunks[t.ci])
     IN bTask' = [bTask EXCEPT ![l] =
                    ChunksLoop([t EXCEPT !.parts = Append(@, piece), !.ci = @ + 1,
                                         !.attempt = 0, !.error = "none"], bChunks)]
  /\ BatchJoin(bTask', bBatch, bpc = "awaitBatch", bpc)
  /\ UNCHANGED <<bText, bBatch, bChunks, notBatchVars>>

\* the operation throws (HTTP 429, another HTTP status, a malformed body):
\* withRetry starts its timer, or after the last attempt throws lastError
\*                                                            part_006:1861-1872, 1805-1815
BatchFetchFails(l) ==
  /\ bTask[l].pc = "fetch"
  /\ \E message \in {"Rate limited, retrying...", "HTTP 500: Internal Server Error"} :
       bTask' = [bTask EXCEPT ![l].error = message,
                              ![l].pc = IF bTask[l].attempt < LegacyMaxAttempts
                                        THEN "backoff" ELSE "rejected"]
  /\ BatchJoin(bTask', bBatch, bpc = "awaitBatch", bpc)
  /\ UNCHANGED <<bText, bBatch, bChunks, notBatchVars>>

\* the timer of withRetry fires: the next attempt             part_006:1802-1804, 1810
BatchBackoffDone(l) ==
  /\ bTask[l].pc = "backoff"
  /\ bTask' = [bTask EXCEPT ![l].pc = "fetch", ![l].attempt = @ + 1]
  /\ UNCHANGED <<bText, bpc, bBatch, bChunks, bResults, bOutcome, notBatchVars>>

\* the 200 ms delay between batches is over: the next batch   part_006:1910-1922
BatchDelayDone ==
  /\ bpc = "batchDelay"
  /\ bBatch' = bBatch + BatchSize
  /\ bTask' = LaunchBatch(bTask, bBatch', bChunks)
  /\ BatchJoin(bTask', bBatch', TRUE, "awaitBatch")
  /\ UNCHANGED <<bText, bChunks, notBatchVars>>

InitBatch ==
  /\ bText \in BatchTexts
  /\ bpc = "start" /\ bBatch = 0 /\ bChunks = <<>>
  /\ bTask = [l \in LanguageKeys |-> IdleTask]
  /\ bResults = EmptyResult /\ bOutcome = NoOutcome
  /\ SequentialUnused /\ LimiterUnused
  /\ variant = "batched" /\ ChunkerUnused /\ ParallelUnused /\ RestUnused

NextBatch ==
  \/ BatchTranslateText
  \/ \E l \in LanguageKeys : BatchLimiterReturns(l)
  \/ \E l \in LanguageKeys : BatchFetchOk(l)
  \/ \E l \in LanguageKeys : BatchFetchFails(l)
  \/ \E l \in LanguageKeys : BatchBackoffDone(l)
  \/ BatchDelayDone

SpecBatch == InitBatch /\ [][NextBatch]_vars

(***************************************************************************)
(* SpecParallel: one translateText call of the parallel free-Google        *)
(* variant (src/unnamed/part_004:104-178)                                  *)
(***************************************************************************)

notParVars ==
  <<ttVars, retryVars, opVars, chunkVars, envVars, rlVars,
    variantVars, chunkerVars, batchVars, restVars>>

\* the lines whose request is sent: "if (!line.trim()) return line"
\*                                                            part_004:111-118
FetchedLines(lines) == { i \in 1..Len(lines) : Trim(lines[i]) # <<>> }

\* translateLines(targetLang) right after its lines.map: one request in
\* flight per non-blank line                                  part_004:109-127
LaunchedLines(lines) ==
  [pc |-> "running", pending |-> FetchedLines(lines), lines |-> lines]

\* the message freeGoogleTranslate's catch block throws      part_004:145-148
ServiceUnavailable ==
  "Translation service unavailable. Please check your internet connection."

\* the outer await Promise.all([...9 tasks]) and what follows it: rejected by
\* the first task that rejects, resolved when all nine resolved
\*                                                            part_004:132-148, 167-177
ParallelJoin(tasks) ==
  IF ppc # "await"
  THEN UNCHANGED <<ppc, pOutcome>>
  ELSE IF \E l \in LanguageKeys : tasks[l].pc = "rejected"
  THEN ppc' = "rejected" /\ pOutcome' = Settled("rejected", <<>>, <<ServiceUnavailable>>)
  ELSE IF \A l \in LanguageKeys : tasks[l].pc = "resolved"
  THEN /\ ppc' = "resolved"
       /\ pOutcome' = Settled("resolved",
                              [l \in LanguageKeys |-> Join(tasks[l].lines, <<"\n">>)], <<>>)
  ELSE UNCHANGED <<ppc, pOutcome>>

\* translateText(text): a blank text resolves with nine empty strings;
\* otherwise freeGoogleTranslate splits the text into lines and starts the
\* nine translateLines tasks                                  part_004:152-169, 107, 132-142
ParallelTranslateText ==
  /\ ppc = "start"
  /\ IF Trim(pText) = <<>>
     THEN /\ ppc' = "resolved"
          /\ pOutcome' = Settled("resolved", [k \in LanguageKeys |-> <<>>], <<>>)
          /\ UNCHANGED <<pLines, pTask>>
     ELSE /\ pLines' = Split(pText, "\n")
          /\ pTask' = [l \in LanguageKeys |-> LaunchedLines(pLines')]
          /\ ppc' = "await"
          /\ UNCHANGED pOutcome
  /\ UNCHANGED <<pText, notParVars>>

\* the response for line i of language l is a translation; the task resolves
\* once all its lines are there                               part_004:124-129
ParallelFetchOk(l, i) ==
  /\ pTask[l].pc \in {"running", "rejected"} /\ i \in pTask[l].pending
  /\ LET t == pTask[l]
         done == [t EXCEPT !.pending = @ \ {i},
                           !.lines[i] = Translated(LANGUAGE_CODES[l].code, pLines[i])]
     IN pTask' = [pTask EXCEPT ![l] =
                    IF t.pc = "running" /\ done.pending = {}
                    THEN [done EXCEPT !.pc = "resolved"] ELSE done]
  /\ ParallelJoin(pTask')
  /\ UNCHANGED <<pText, pLines, notParVars>>

\* the request for line i of language l fails (network error, HTTP status,
\* malformed body): the inner Promise.all rejects the task    part_004:116-122, 110
ParallelFetchFails(l, i) ==
  /\ pTask[l].pc \in {"running", "rejected"} /\ i \in pTask[l].pending
  /\ pTask' = [pTask EXCEPT ![l].pending = @ \ {i}, ![l].pc = "rejected"]
  /\ ParallelJoin(pTask')
  /\ UNCHANGED <<pText, pLines, notParVars>>

InitParallel ==
  /\ pText \in ParallelTexts
  /\ ppc = "start" /\ pLines = <<>>
  /\ pTask = [l \in LanguageKeys |-> [pc |-> "idle", pending |-> {}, lines |-> <<>>]]
  /\ pOutcome = NoOutcome
  /\ SequentialUnused /\ LimiterUnused
  /\ variant = "parallel" /\ ChunkerUnused /\ BatchUnused /\ RestUnused

NextParallel ==
  \/ ParallelTranslateText
  \/ \E l \in LanguageKeys : \E i \in 1..Len(pLines) : ParallelFetchOk(l, i)
  \/ \E l \in LanguageKeys : \E i \in 1..Len(pLines) : ParallelFetchFails(l, i)

SpecParallel == InitParallel /\ [][NextParallel]_vars

(***************************************************************************)
(* withRetry of the free-Google variants (part_007:113-134, identical in   *)
(* part_006:1794-1816) and SpecLegacyRetry: withRetry(operation,           *)
(* maxRetries, delayMs) around an operation that resolves or throws at     *)
(* will. The loop variable attempt starts at 1; rpc = "loop" is the loop   *)
(* head.                                                                   *)
(***************************************************************************)

\* delayMs: number = 1000                                     part_007:116
LegacyDefaultDelay == 1000

\* withRetry(async () => {...}, 2, 2000)                      part_007:247
FreeMaxRetries == 2
FreeRetryDelay == 2000

\* delayMs * attempt                                          part_007:128
LegacyDelay(delayMs, att) == delayMs * att

\* withRetry(operation, maxR, delayMs) is called: let attempt = 1
LegacyRetryCall(maxR, delayMs) ==
  /\ rpc' = "loop"
  /\ maxRetries' = maxR /\ baseDelay' = delayMs /\ attempt' = 1
  /\ lastError' = NoError /\ retValue' = <<>> /\ delay' = 0
  /\ opCalls' = 0 /\ delaysStarted' = 0

\* attempt <= maxRetries: return await operation()            part_007:121-123
LegacyRetryInvoke ==
  /\ variant \in {"legacy", "free"}
  /\ rpc = "loop" /\ attempt <= maxRetries
  /\ rpc' = "op" /\ opc' = "called"
  /\ opCalls' = opCalls + 1
  /\ UNCHANGED <<maxRetries, baseDelay, attempt, lastError, retValue, delay, delaysStarted>>
  /\ UNCHANGED <<ttVars, opValue, opError, chunkVars, envVars, rlVars, extVars>>

\* the loop is left: throw lastError!                         part_007:133
LegacyRetryThrow ==
  /\ variant \in {"legacy", "free"}
  /\ rpc = "loop" /\ attempt > maxRetries
  /\ rpc' = "rejected"
  /\ UNCHANGED <<maxRetries, baseDelay, attempt, lastError, retValue, delay,
                 opCalls, delaysStarted>>
  /\ UNCHANGED <<ttVars, opVars, chunkVars, envVars, rlVars, extVars>>

\* the operation resolved: its value is returned              part_007:123
LegacyRetryReturn ==
  /\ variant \in {"legacy", "free"}
  /\ rpc = "op" /\ opc = "resolved"
  /\ rpc' = "resolved"
  /\ retValue' = opValue
  /\ opc' = "idle" /\ opValue' = <<>> /\ opError' = NoError
  /\ UNCHANGED <<maxRetries, baseDelay, attempt, lastError, delay, opCalls, delaysStarted>>
  /\ UNCHANGED <<ttVars, chunkVars, envVars, rlVars, extVars>>

\* catch (error): lastError = error; before another attempt the timer of
\* delayMs * attempt is started, after the last one the loop ends
\*                                                            part_007:124-130
LegacyRetryCatch ==
  /\ variant \in {"legacy", "free"}
  /\ rpc = "op" /\ opc = "rejected"
  /\ lastError' = opError
  /\ IF attempt < maxRetries
     THEN /\ rpc' = "delay"
          /\ delay' = LegacyDelay(baseDelay, attempt)
          /\ delaysStarted' = delaysStarted + 1
          /\ UNCHANGED attempt
     ELSE /\ rpc' = "loop"
          /\ attempt' = attempt + 1
          /\ UNCHANGED <<delay, delaysStarted>>
  /\ opc' = "idle" /\ opValue' = <<>> /\ opError' = NoError
  /\ UNCHANGED <<maxRetries, baseDelay, retValue, opCalls>>
  /\ UNCHANGED <<ttVars, chunkVars, envVars, rlVars, extVars>>

\* the timer fires: attempt++                                 part_007:121, 128
LegacyRetryDelayDone ==
  /\ variant \in {"legacy", "free"}
  /\ rpc = "delay"
  /\ rpc' = "loop" /\ attempt' = attempt + 1
  /\ delay' = 0
  /\ UNCHANGED <<maxRetries, baseDelay, lastError, retValue, opCalls, delaysStarted>>
  /\ UNCHANGED <<ttVars, opVars, chunkVars, envVars, rlVars, extVars>>

LegacyRetryNext ==
  \/ LegacyRetryInvoke \/ LegacyRetryThrow \/ LegacyRetryReturn
  \/ LegacyRetryCatch \/ LegacyRetryDelayDone

\* the (maxRetries, delayMs) pairs of the calls of the free variants, the
\* defaults (part_006:1836) and (2, 2000) (part_007:247), among others
LegacyRetryArgs ==
  (1..MaxRetriesBound) \X {LegacyDefaultDelay, FreeRetryDelay}

InitLegacyRetry ==
  /\ text = <<>> /\ apiKey = TRUE
  /\ tpc = "detached" /\ langIdx = 1 /\ result = EmptyResult /\ errors = <<>>
  /\ outcome = NoOutcome
  /\ rpc = "loop" /\ attempt = 1
  /\ \E a \in LegacyRetryArgs : maxRetries = a[1] /\ baseDelay = a[2]
  /\ lastError = NoError /\ retValue = <<>> /\ delay = 0
  /\ opCalls = 0 /\ delaysStarted = 0
  /\ opc = "idle" /\ opValue = <<>> /\ opError = NoError
  /\ chunks = <<>> /\ ci = 0 /\ translatedChunks = <<>>
  /\ inflight = {} /\ okSeen = {} /\ waits = 0 /\ requests = 0
  /\ LimiterUnused
  /\ variant = "legacy" /\ ChunkerUnused /\ BatchUnused /\ ParallelUnused /\ RestUnused

NextLegacyRetry == LegacyRetryNext \/ AbstractOperation

SpecLegacyRetry == InitLegacyRetry /\ [][NextLegacyRetry]_vars

(***************************************************************************)
(* SpecFree: one translateText call of the sequential free-Google variant  *)
(* with fallback (src/unnamed/part_007:166-306, 437-483)                   *)
(*                                                                         *)
(* The operation given to withRetry sends the chunk to the primary         *)
(* endpoint and, when that throws, to alternativeTranslate. The provider   *)
(* answers a request with a translation or with an error; the translation  *)
(* of a non-blank chunk is taken to be non-empty.                          *)
(***************************************************************************)

\* the input texts: a blank one, a one-chunk and a two-chunk one
FreeTexts ==
  { <<" ">>,
    <<"h", "i">>,
    <<"a", "b", "c", " ", "d", "e", "f">> }

\* what the primary request throws: status 429, another status
\*                                                            part_007:207-213
PrimaryErrors == {"Rate limited, will retry...", "HTTP 500: Internal Server Error"}

\* what alternativeTranslate throws                           part_007:150-157
FallbackErrors == {"HTTP 503", "Invalid response format"}

\* `Translation failed: ${primaryError.message}`              part_007:243
TranslationFailed(message) == <<"Translation failed: ", message>>

\* `[Translation failed for ${lang.key}]`                     part_007:281
FailedPlaceholder(lang) == <<"[Translation failed for ", lang, "]">>

\* the chunk loop from index i on: blank chunks are pushed as they are; the
\* loop stops at the first chunk to translate or at the end  part_007:177-182
RECURSIVE FreeChunksLoop(_, _, _)
FreeChunksLoop(cs, i, parts) ==
  IF i <= Len(cs) /\ Trim(cs[i]) = <<>>
  THEN FreeChunksLoop(cs, i + 1, Append(parts, cs[i]))
  ELSE [ci |-> i, parts |-> parts]

\* translateChunks goes on from chunk i: it suspends in
\* rateLimiter.waitIfNeeded() before the next chunk to translate, or returns
\* translatedChunks.join('\n'), which the language loop stores before its
\* 300 ms pause                                               part_007:177-252, 275-277
FreeChunksFrom(i, parts) ==
  LET at == FreeChunksLoop(chunks, i, parts) IN
  /\ ci' = at.ci
  /\ translatedChunks' = at.parts
  /\ IF at.ci <= Len(chunks)
     THEN tpc' = "limiter" /\ UNCHANGED result
     ELSE /\ tpc' = "langDelay"
          /\ result' = Assign(result, CurrentLang, Join(at.parts, <<"\n">>))

\* translateText(text): a blank text resolves with nine empty strings;
\* otherwise freeGoogleTranslate chunks the text             part_007:438-457, 170
FreeTranslateText ==
  /\ variant = "free" /\ tpc = "start"
  /\ IF Trim(text) = <<>>
     THEN /\ tpc' = "resolved"
          /\ outcome' = Settled("resolved", [k \in LanguageKeys |-> <<>>], <<>>)
          /\ UNCHANGED chunks
     ELSE /\ tpc' = "loop"
          /\ chunks' = chunkTextLegacy(text, LegacyChunkLimit)
          /\ UNCHANGED outcome
  /\ UNCHANGED <<text, langIdx, result, errors, ci, translatedChunks,
                 inflight, okSeen, waits, requests>>
  /\ UNCHANGED <<retryVars, opVars, envVars, rlVars, extVars>>

\* an iteration of the language loop: translateChunks(lang.code) is called
\*                                                            part_007:273-275, 173-177
FreeTranslateChunks ==
  /\ variant = "free" /\ tpc = "loop" /\ langIdx <= Len(Languages)
  /\ FreeChunksFrom(1, <<>>)
  /\ UNCHANGED <<text, langIdx, errors, outcome, chunks, inflight, okSeen, waits, requests>>
  /\ UNCHANGED <<retryVars, opVars, envVars, rlVars, extVars>>

\* rateLimiter.waitIfNeeded() returned: withRetry(operation, 2, 2000)
\*                                                            part_007:184-186, 247
FreeLimiterReturns ==
  /\ variant = "free" /\ tpc = "limiter"
  /\ tpc' = "awaitChunk"
  /\ LegacyRetryCall(FreeMaxRetries, FreeRetryDelay)
  /\ UNCHANGED <<text, langIdx, result, errors, outcome>>
  /\ UNCHANGED <<opVars, chunkVars, envVars, rlVars, extVars>>

\* the primary request returned a translation: the operation returns it
\*                                                            part_007:187-233
FreePrimaryOk ==
  /\ variant = "free" /\ opc = "called"
  /\ opc' = "resolved"
  /\ opValue' = Translated(LANGUAGE_CODES[CurrentLang].code, chunks[ci])
  /\ opError' = NoError
  /\ UNCHANGED <<ttVars, retryVars, chunkVars, envVars, rlVars, extVars>>

\* the primary request threw: catch (primaryError) calls
\* alternativeTranslate                                       part_007:234-239
FreePrimaryFails ==
  /\ variant = "free" /\ opc = "called"
  /\ opc' = "fallback"
  /\ primaryError' \in PrimaryErrors
  /\ fbCalls' = fbCalls + 1
  /\ UNCHANGED <<opValue, opError, failedLangs>>
  /\ UNCHANGED <<ttVars, retryVars, chunkVars, envVars, rlVars>>
  /\ UNCHANGED <<notFreeVars>>

\* alternativeTranslate returned a translation: the operation returns it
\*                                                            part_007:239, 137-163
FreeFallbackOk ==
  /\ variant = "free" /\ opc = "fallback"
  /\ opc' = "resolved"
  /\ opValue' = Translated(LANGUAGE_CODES[CurrentLang].code, chunks[ci])
  /\ opError' = NoError
  /\ primaryError' = "none"
  /\ UNCHANGED <<fbCalls, failedLangs>>
  /\ UNCHANGED <<ttVars, retryVars, chunkVars, envVars, rlVars>>
  /\ UNCHANGED <<notFreeVars>>

\* alternativeTranslate threw: the operation throws an Error with the
\* primary error's message                                    part_007:240-244
FreeFallbackFails ==
  /\ variant = "free" /\ opc = "fallback"
  /\ \E fallbackError \in FallbackErrors :
       /\ opc' = "rejected"
       /\ opError' = NewError(TranslationFailed(primaryError))
  /\ opValue' = <<>>
  /\ primaryError' = "none"
  /\ UNCHANGED <<fbCalls, failedLangs>>
  /\ UNCHANGED <<ttVars, retryVars, chunkVars, envVars, rlVars>>
  /\ UNCHANGED <<notFreeVars>>

\* withRetry returned the chunk's translation: it is pushed and the chunk
\* loop goes on                                               part_007:186, 249-252
FreeChunkDone ==
  /\ variant = "free" /\ tpc = "awaitChunk" /\ rpc = "resolved"
  /\ FreeChunksFrom(ci + 1, Append(translatedChunks, retValue))
  /\ RetryIdle("idle")
  /\ fbCalls' = 0
  /\ UNCHANGED <<text, langIdx, errors, outcome, chunks, inflight, okSeen, waits, requests>>
  /\ UNCHANGED <<primaryError, failedLangs>>
  /\ UNCHANGED <<opVars, envVars, rlVars, notFreeVars>>

\* the timer of 300 ms fired: the next language               part_007:277
FreeLanguageDelayDone ==
  /\ variant = "free" /\ tpc = "langDelay"
  /\ tpc' = "loop" /\ langIdx' = langIdx + 1
  /\ ci' = 0 /\ translatedChunks' = <<>>
  /\ UNCHANGED <<text, result, errors, outcome, chunks, inflight, okSeen, waits, requests>>
  /\ UNCHANGED <<retryVars, opVars, envVars, rlVars, extVars>>

\* withRetry rethrew, translateChunks rejected: the catch block of the
\* language loop stores the placeholder and the loop goes on  part_007:278-282
FreeLanguageFailed ==
  /\ variant = "free" /\ tpc = "awaitChunk" /\ rpc = "rejected"
  /\ result' = Assign(result, CurrentLang, FailedPlaceholder(CurrentLang))
  /\ failedLangs' = failedLangs \cup {CurrentLang}
  /\ tpc' = "loop" /\ langIdx' = langIdx + 1
  /\ ci' = 0 /\ translatedChunks' = <<>>
  /\ RetryIdle("idle")
  /\ fbCalls' = 0
  /\ UNCHANGED <<text, errors, outcome, chunks, inflight, okSeen, waits, requests>>
  /\ UNCHANGED primaryError
  /\ UNCHANGED <<opVars, envVars, rlVars, notFreeVars>>

\* the loop is over: freeGoogleTranslate returns results and translateText
\* returns them                                               part_007:285-286, 462-464
FreeFinish ==
  /\ variant = "free" /\ tpc = "loop" /\ langIdx > Len(Languages)
  /\ tpc' = "resolved"
  /\ outcome' = Settled("resolved", result, <<>>)
  /\ UNCHANGED <<text, langIdx, result, errors, chunkVars>>
  /\ UNCHANGED <<retryVars, opVars, envVars, rlVars, extVars>>

InitFree ==
  /\ text \in FreeTexts
  /\ apiKey = TRUE
  /\ tpc = "start" /\ langIdx = 1 /\ result = EmptyResult /\ errors = <<>>
  /\ outcome = NoOutcome
  /\ rpc = "idle" /\ maxRetries = 0 /\ baseDelay = 0 /\ attempt = 0
  /\ lastError = NoError /\ retValue = <<>> /\ delay = 0
  /\ opCalls = 0 /\ delaysStarted = 0
  /\ opc = "idle" /\ opValue = <<>> /\ opError = NoError
  /\ chunks = <<>> /\ ci = 0 /\ translatedChunks = <<>>
  /\ inflight = {} /\ okSeen = {} /\ waits = 0 /\ requests = 0
  /\ LimiterUnused
  /\ variant = "free" /\ ChunkerUnused /\ BatchUnused /\ ParallelUnused
  /\ primaryError = "none" /\ fbCalls = 0 /\ failedLangs = {}
  /\ ClientUnused /\ AppUnused /\ LateUnused

NextFree ==
  \/ FreeTranslateText \/ FreeTranslateChunks \/ FreeLimiterReturns
  \/ LegacyRetryNext
  \/ FreePrimaryOk \/ FreePrimaryFails \/ FreeFallbackOk \/ FreeFallbackFails
  \/ FreeChunkDone \/ FreeLanguageDelayDone \/ FreeLanguageFailed \/ FreeFinish

SpecFree == InitFree /\ [][NextFree]_vars

(***************************************************************************)
(* SpecClient: one call of a provider client of the multi-provider variant *)
(* (src/unnamed/part_002: translateWithGoogle 210-256,                     *)
(* translateWithHuggingFace 259-309, translateWithGroq 312-363) for the    *)
(* language CurrentLang.                                                   *)
(*                                                                         *)
(* A 2xx response body is described by what the clients look at: whether   *)
(* it has the fields the translation is read from (data[0] for Google,     *)
(* [0].translation_text or [0].generated_text for Hugging Face,            *)
(* choices[0].message.content for Groq), whether it has an error field,    *)
(* and the text found in the fields.                                       *)
(***************************************************************************)

ClientServices == {"google", "huggingface", "groq"}

\* the input texts: one, two and three chunks
ClientTexts ==
  { <<"h", "i">>,
    <<"a", "b", "c", " ", "d", "e", "f">>,
    <<"a", "b", "c", " ", "d", "e", "f", " ", "g", "h", "i">> }

\* the 2xx response bodies the provider may send for a chunk: the expected
\* shape, an object without the expected fields, and an object with an error
\* field instead of them
ClientBodies(code, chunk) ==
  { [fields |-> TRUE, error |-> FALSE, content |-> Translated(code, chunk)],
    [fields |-> FALSE, error |-> FALSE, content |-> <<>>],
    [fields |-> FALSE, error |-> TRUE, content |-> <<>>] }

\* if (data.error) throw ...: only the Hugging Face client looks at it
\*                                                            part_002:295-297
BodyThrows(svc, body) == svc = "huggingface" /\ body.error

\* the text a client takes from a body it accepts: a missing field makes the
\* optional chain undefined and `|| ''` puts the empty string in its place
\*                                                            part_002:246, 299, 353
ExtractText(svc, body) ==
  IF ~body.fields THEN <<>>
  ELSE IF svc = "groq" THEN Trim(body.content)
  ELSE body.content

\* translatedChunks.join('') / join(' ')                      part_002:255, 308, 362
ClientJoin(svc, parts) ==
  IF svc = "google" THEN Join(parts, <<>>) ELSE Join(parts, <<" ">>)

\* the message of the Error thrown for a response that is not ok
\*                                                            part_002:236-243, 287-291, 346-350
ClientHttpError(svc) ==
  IF svc = "google" THEN "Rate limited by Google Translate"
  ELSE IF svc = "huggingface" THEN "Rate limited by Hugging Face API"
  ELSE "Rate limited by Groq API"

\* the client is called: the text is chunked and the loop suspends in the
\* service's rate limiter                                     part_002:211-215, 260-264, 313-317
ClientCall ==
  /\ variant = "client" /\ tpc = "start"
  /\ chunks' = chunkText(text, ChunkSize)
  /\ ci' = 1 /\ translatedChunks' = <<>>
  /\ tpc' = "limiter"
  /\ UNCHANGED <<text, langIdx, result, errors, outcome, inflight, okSeen, waits, requests>>
  /\ UNCHANGED <<retryVars, opVars, envVars, rlVars, extVars>>

\* rateLimiters[service].wait() returned: the request is sent part_002:215-231
ClientLimiterReturns ==
  /\ variant = "client" /\ tpc = "limiter"
  /\ tpc' = "fetch"
  /\ UNCHANGED <<text, langIdx, result, errors, outcome, chunkVars>>
  /\ UNCHANGED <<retryVars, opVars, envVars, rlVars, extVars>>

\* the response is not ok: the client throws                  part_002:235-243, 249-252
ClientResponseNotOk ==
  /\ variant = "client" /\ tpc = "fetch"
  /\ tpc' = "rejected"
  /\ outcome' = Settled("rejected", <<>>, <<ClientHttpError(service)>>)
  /\ UNCHANGED <<text, langIdx, result, errors, chunkVars>>
  /\ UNCHANGED <<retryVars, opVars, envVars, rlVars, extVars>>

\* the response is ok: the body is parsed, the text is taken from it and
\* pushed, and the loop goes on or the joined chunks are returned
\*                                                            part_002:245-255, 293-308, 352-362
ClientResponseOk ==
  /\ variant = "client" /\ tpc = "fetch"
  /\ \E body \in ClientBodies(LANGUAGE_CODES[CurrentLang].code, chunks[ci]) :
       IF BodyThrows(service, body)
       THEN /\ tpc' = "rejected"
            /\ outcome' = Settled("rejected", <<>>, <<"Hugging Face error">>)
            /\ UNCHANGED <<ci, translatedChunks, accepted>>
       ELSE /\ translatedChunks' = Append(translatedChunks, ExtractText(service, body))
            /\ accepted' = Append(accepted, body)
            /\ IF ci < Len(chunks)
               THEN ci' = ci + 1 /\ tpc' = "limiter" /\ UNCHANGED outcome
               ELSE /\ tpc' = "resolved"
                    /\ outcome' = Settled("resolved", ClientJoin(service, translatedChunks'), <<>>)
                    /\ UNCHANGED ci
  /\ UNCHANGED <<text, langIdx, result, errors, chunks, inflight, okSeen, waits, requests>>
  /\ UNCHANGED <<retryVars, opVars, envVars, rlVars, service, notClientVars>>

InitClient ==
  /\ text \in ClientTexts
  /\ apiKey = TRUE
  /\ tpc = "start" /\ langIdx \in {1, Len(Languages)}
  /\ result = EmptyResult /\ errors = <<>>
  /\ outcome = NoOutcome
  /\ rpc = "idle" /\ maxRetries = 0 /\ baseDelay = 0 /\ attempt = 0
  /\ lastError = NoError /\ retValue = <<>> /\ delay = 0
  /\ opCalls = 0 /\ delaysStarted = 0
  /\ opc = "idle" /\ opValue = <<>> /\ opError = NoError
  /\ chunks = <<>> /\ ci = 0 /\ translatedChunks = <<>>
  /\ inflight = {} /\ okSeen = {} /\ waits = 0 /\ requests = 0
  /\ LimiterUnused
  /\ variant = "client" /\ ChunkerUnused /\ BatchUnused /\ ParallelUnused
  /\ FreeUnused /\ AppUnused /\ LateUnused
  /\ service \in ClientServices /\ accepted = <<>>

NextClient ==
  ClientCall \/ ClientLimiterReturns \/ ClientResponseNotOk \/ ClientResponseOk

SpecClient == InitClient /\ [][NextClient]_vars

(***************************************************************************)
(* SpecApp: one row of the table of src/src/App.tsx: updateEnglishText     *)
(* (327-331), the debounce effect (285-303), translateRow (194-282), its   *)
(* automatic retry (276-280) and the Retry button (681-692).               *)
(*                                                                         *)
(* A state update and the render it causes are one step: the effect is run *)
(* again (its cleanup clears the pending timeout) whenever its key         *)
(* id:english:isTranslating:!!error has changed. translateText is the      *)
(* environment: a call resolves with the translations of its argument or   *)
(* rejects with a message that does or does not contain 'temporarily busy' *)
(* or 'Rate limited'.                                                      *)
(***************************************************************************)

\* the texts the user types into the row: empty, blank, and two others
AppTexts == { <<>>, <<" ">>, <<"a">>, <<"a", "b">> }

\* the texts translateText is called with
AppCallTexts == { t \in AppTexts : Trim(t) # <<>> }

\* translateText calls of the row in flight / automatic retry timeouts pending
\* at the same time, at most
MaxCalls == 2
MaxRetryTimers == 2

\* the TranslationResult translateText(t) resolves with
AppResult(t) == <<"translations of ">> \o t

NoCalls == [t \in AppCallTexts |-> 0]

RECURSIVE CountIn(_, _)
CountIn(bag, ts) ==
  IF ts = {} THEN 0
  ELSE LET t == CHOOSE x \in ts : TRUE IN bag[t] + CountIn(bag, ts \ {t})

\* how many calls (timeouts) a bag holds
Count(bag) == CountIn(bag, DOMAIN bag)

\* the dependency of the effect                               App.tsx:303
EffectKey(english, translating, error) == <<english, translating, error # "none">>

\* the timeout the effect sets for the row                    App.tsx:288-290
Debounced(english, translating, error) ==
  IF Trim(english) # <<>> /\ ~translating /\ error = "none" THEN {english} ELSE {}

\* the render after a state update: when the key has changed the cleanup
\* clears the timeout and the effect sets a new one; otherwise the timeout
\* that was pending stays                                     App.tsx:285-303
Rendered(pending) ==
  aTimer' = IF EffectKey(aEnglish', aTranslating', aError')
               = EffectKey(aEnglish, aTranslating, aError)
            THEN pending
            ELSE Debounced(aEnglish', aTranslating', aError')

\* translateRow(rowId, t) up to its await: a blank text empties the
\* translations and the error; any other text sets isTranslating, clears the
\* error and calls translateText(t)                           App.tsx:194-233
TranslateRow(t) ==
  IF Trim(t) = <<>>
  THEN /\ aShown' = <<>> /\ aError' = "none"
       /\ aFresh' = FALSE
       /\ UNCHANGED <<aTranslating, aCalls, aStarted>>
  ELSE /\ Count(aCalls) < MaxCalls
       /\ aTranslating' = TRUE /\ aError' = "none"
       /\ aCalls' = [aCalls EXCEPT ![t] = @ + 1]
       /\ aStarted' = (aStarted \/ t = aEnglish)
       /\ UNCHANGED <<aShown, aFresh>>

\* updateEnglishText(rowId, t)                                App.tsx:327-331
AppEdit ==
  /\ variant = "app"
  /\ \E t \in AppTexts \ {aEnglish} : aEnglish' = t
  /\ aFresh' = FALSE /\ aStarted' = FALSE
  /\ UNCHANGED <<aTranslating, aError, aShown, aCalls, aRetry>>
  /\ Rendered(aTimer)
  /\ UNCHANGED notAppVars

\* the debounce timeout fires: the row it finds in the rows of its render
\* has the text and the isTranslating flag it was set for, and translateRow
\* is called                                                  App.tsx:290-296
AppDebounceFires ==
  /\ variant = "app"
  /\ \E t \in aTimer : TranslateRow(t)
  /\ UNCHANGED <<aEnglish, aRetry>>
  /\ Rendered({})
  /\ UNCHANGED notAppVars

\* a click on the Retry button of the error box               App.tsx:681-692
AppRetryClick ==
  /\ variant = "app"
  /\ aError # "none"
  /\ TranslateRow(aEnglish)
  /\ UNCHANGED <<aEnglish, aRetry>>
  /\ Rendered(aTimer)
  /\ UNCHANGED notAppVars

\* the timeout of the automatic retry fires                   App.tsx:277-279
AppAutoRetryFires ==
  /\ variant = "app"
  /\ \E t \in AppCallTexts :
       /\ aRetry[t] > 0
       /\ aRetry' = [aRetry EXCEPT ![t] = @ - 1]
       /\ TranslateRow(t)
  /\ UNCHANGED aEnglish
  /\ Rendered(aTimer)
  /\ UNCHANGED notAppVars

\* translateText(t) resolved: the result is stored in the row App.tsx:233-249
AppCallSucceeds ==
  /\ variant = "app"
  /\ \E t \in AppCallTexts :
       /\ aCalls[t] > 0
       /\ aCalls' = [aCalls EXCEPT ![t] = @ - 1]
       /\ aShown' = AppResult(t)
       /\ aFresh' = (t = aEnglish)
  /\ aTranslating' = FALSE /\ aError' = "none"
  /\ UNCHANGED <<aEnglish, aRetry, aStarted>>
  /\ Rendered(aTimer)
  /\ UNCHANGED notAppVars

\* translateText(t) rejected: the error is stored, the translations are
\* emptied and, for a busy or rate-limit message, the retry timeout is set
\*                                                            App.tsx:250-281
AppCallFails ==
  /\ variant = "app"
  /\ \E t \in AppCallTexts, kind \in {"busy", "other"} :
       /\ aCalls[t] > 0
       /\ aCalls' = [aCalls EXCEPT ![t] = @ - 1]
       /\ aError' = kind
       /\ IF kind = "busy"
          THEN /\ Count(aRetry) < MaxRetryTimers
               /\ aRetry' = [aRetry EXCEPT ![t] = @ + 1]
          ELSE UNCHANGED aRetry
  /\ aTranslating' = FALSE /\ aShown' = <<>>
  /\ aFresh' = FALSE
  /\ UNCHANGED <<aEnglish, aStarted>>
  /\ Rendered(aTimer)
  /\ UNCHANGED notAppVars

InitApp ==
  /\ SequentialUnused /\ LimiterUnused
  /\ variant = "app" /\ ChunkerUnused /\ BatchUnused /\ ParallelUnused
  /\ FreeUnused /\ ClientUnused /\ LateUnused
  /\ aEnglish = <<>> /\ aTranslating = FALSE /\ aError = "none" /\ aShown = <<>>
  /\ aTimer = {} /\ aCalls = NoCalls /\ aRetry = NoCalls
  /\ aFresh = FALSE /\ aStarted = FALSE

NextApp ==
  \/ AppEdit \/ AppDebounceFires \/ AppRetryClick \/ AppAutoRetryFires
  \/ AppCallSucceeds \/ AppCallFails

SpecApp == InitApp /\ [][NextApp]_vars

(***************************************************************************)
(* SpecFreeTimed: translateChunks of the sequential free-Google variant    *)
(* (src/unnamed/part_007:173-253) for one language on a millisecond clock: *)
(* RateLimiter.waitIfNeeded (17-29), withRetry(operation, 2, 2000) and the *)
(* requests the operation sends to the primary endpoint and, through       *)
(* alternativeTranslate, to the fallback endpoint. A response arrives      *)
(* after the request was sent, any number of clock steps later.            *)
(***************************************************************************)

\* private readonly minInterval = 200                         part_007:19
FreeInterval == 200

\* the step and the range of the clock
FreeTickMs == 100
FreeMaxClock == 3500

\* fetch(...) is called at the current time
RequestSent == reqPrev' = reqLast /\ reqLast' = clock

\* the response to the latest request may have arrived
ResponseDue == clock > reqLast

\* withRetry(operation, 2, 2000) is called and invokes the operation, which
\* sends the primary request                                  part_007:186-204, 121-123
TimedWithRetry ==
  /\ tpc' = "awaitChunk"
  /\ maxRetries' = FreeMaxRetries /\ baseDelay' = FreeRetryDelay /\ attempt' = 1
  /\ rpc' = "op" /\ opc' = "called"
  /\ RequestSent

\* the operation returned the chunk's translation: it is pushed and the
\* chunk loop goes on or translateChunks returns              part_007:249-253
TimedChunkDone ==
  LET at == FreeChunksLoop(chunks, ci + 1,
              Append(translatedChunks, Translated(LANGUAGE_CODES[CurrentLang].code, chunks[ci])))
  IN /\ ci' = at.ci /\ translatedChunks' = at.parts
     /\ tpc' = IF at.ci <= Len(chunks) THEN "chunk" ELSE "resolved"
     /\ rpc' = "idle" /\ opc' = "idle"
     /\ maxRetries' = 0 /\ baseDelay' = 0 /\ attempt' = 0

timedFrame ==
  <<text, langIdx, result, errors, outcome, lastError, retValue, delay, opCalls,
    delaysStarted, opValue, opError, inflight, okSeen, waits, requests, envVars,
    fpc, prevReturn, lastReturn, variantVars, chunkerVars, batchVars, parVars,
    freeVars, clientVars, appVars, laterVars>>

\* translateChunks(lang.code) is called                       part_007:170-177
TimedTranslateChunks ==
  /\ variant = "freeTimed" /\ tpc = "start"
  /\ chunks' = chunkTextLegacy(text, LegacyChunkLimit)
  /\ LET at == FreeChunksLoop(chunks', 1, <<>>)
     IN /\ ci' = at.ci /\ translatedChunks' = at.parts
        /\ tpc' = IF at.ci <= Len(chunks') THEN "chunk" ELSE "resolved"
  /\ UNCHANGED <<rpc, maxRetries, baseDelay, attempt, opc, clock, lastCall, wakeAt,
                 timedVars, timedFrame>>

\* await rateLimiter.waitIfNeeded(): it sets the timeout for the rest of the
\* interval, or sets lastRequest and returns, and withRetry is called
\*                                                            part_007:21-28, 184-186
TimedWaitIfNeeded ==
  /\ variant = "freeTimed" /\ tpc = "chunk"
  /\ IF clock - lastCall < FreeInterval
     THEN /\ tpc' = "limiterSleep"
          /\ wakeAt' = <<clock + (FreeInterval - (clock - lastCall))>>
          /\ UNCHANGED <<lastCall, rpc, maxRetries, baseDelay, attempt, opc, timedVars>>
     ELSE /\ lastCall' = clock
          /\ TimedWithRetry
          /\ UNCHANGED wakeAt
  /\ UNCHANGED <<chunks, ci, translatedChunks, clock, timedFrame>>

\* the timeout of waitIfNeeded fires: lastRequest = Date.now(), withRetry is
\* called                                                     part_007:25-27, 186
TimedLimiterWakes ==
  /\ variant = "freeTimed" /\ tpc = "limiterSleep"
  /\ clock >= wakeAt[1]
  /\ lastCall' = clock /\ wakeAt' = <<>>
  /\ TimedWithRetry
  /\ UNCHANGED <<chunks, ci, translatedChunks, clock, timedFrame>>

\* the primary request returned a translation                 part_007:187-233
TimedPrimaryOk ==
  /\ variant = "freeTimed" /\ opc = "called" /\ ResponseDue
  /\ TimedChunkDone
  /\ UNCHANGED <<chunks, clock, lastCall, wakeAt, timedVars, timedFrame>>

\* the primary request failed: alternativeTranslate sends its request
\*                                                            part_007:234-239, 137-148
TimedPrimaryFails ==
  /\ variant = "freeTimed" /\ opc = "called" /\ ResponseDue
  /\ opc' = "fallback"
  /\ RequestSent
  /\ UNCHANGED <<tpc, rpc, maxRetries, baseDelay, attempt, chunks, ci, translatedChunks,
                 clock, lastCall, wakeAt, timedFrame>>

\* alternativeTranslate returned a translation                part_007:239, 159-162
TimedFallbackOk ==
  /\ variant = "freeTimed" /\ opc = "fallback" /\ ResponseDue
  /\ TimedChunkDone
  /\ UNCHANGED <<chunks, clock, lastCall, wakeAt, timedVars, timedFrame>>

\* alternativeTranslate failed: the operation throws, withRetry sets the
\* timeout of delayMs * attempt or, after the last attempt, rethrows
\*                                                            part_007:240-244, 124-133
TimedFallbackFails ==
  /\ variant = "freeTimed" /\ opc = "fallback" /\ ResponseDue
  /\ opc' = "idle"
  /\ IF attempt < maxRetries
     THEN /\ rpc' = "delay"
          /\ wakeAt' = <<clock + LegacyDelay(baseDelay, attempt)>>
          /\ UNCHANGED <<tpc, maxRetries, baseDelay, attempt>>
     ELSE /\ rpc' = "idle" /\ tpc' = "rejected"
          /\ maxRetries' = 0 /\ baseDelay' = 0 /\ attempt' = 0
          /\ UNCHANGED wakeAt
  /\ UNCHANGED <<chunks, ci, translatedChunks, clock, lastCall, timedVars, timedFrame>>

\* the timeout of withRetry fires: the next attempt sends the primary
\* request                                                    part_007:121-123, 128
TimedRetryDelayDone ==
  /\ variant = "freeTimed" /\ rpc = "delay"
  /\ clock >= wakeAt[1]
  /\ wakeAt' = <<>>
  /\ attempt' = attempt + 1
  /\ rpc' = "op" /\ opc' = "called"
  /\ RequestSent
  /\ UNCHANGED <<tpc, maxRetries, baseDelay, chunks, ci, translatedChunks, clock,
                 lastCall, timedFrame>>

\* time passes
FreeTick ==
  /\ variant = "freeTimed"
  /\ clock + FreeTickMs <= FreeMaxClock
  /\ clock' = clock + FreeTickMs
  /\ UNCHANGED <<tpc, rpc, maxRetries, baseDelay, attempt, opc, chunks, ci,
                 translatedChunks, lastCall, wakeAt, timedVars, timedFrame>>

InitFreeTimed ==
  /\ text \in { t \in FreeTexts : Trim(t) # <<>> }
  /\ apiKey = TRUE
  /\ tpc = "start" /\ langIdx = 1 /\ result = EmptyResult /\ errors = <<>>
  /\ outcome = NoOutcome
  /\ rpc = "idle" /\ maxRetries = 0 /\ baseDelay = 0 /\ attempt = 0
  /\ lastError = NoError /\ retValue = <<>> /\ delay = 0
  /\ opCalls = 0 /\ delaysStarted = 0
  /\ opc = "idle" /\ opValue = <<>> /\ opError = NoError
  /\ chunks = <<>> /\ ci = 0 /\ translatedChunks = <<>>
  /\ inflight = {} /\ okSeen = {} /\ waits = 0 /\ requests = 0
  /\ clock = StartTime /\ lastCall = 0 /\ fpc = <<>> /\ wakeAt = <<>>
  /\ prevReturn = -1 /\ lastReturn = -1
  /\ variant = "freeTimed" /\ ChunkerUnused /\ BatchUnused /\ ParallelUnused
  /\ FreeUnused /\ ClientUnused /\ AppUnused /\ LaterUnused
  /\ reqPrev = -1 /\ reqLast = -1

NextFreeTimed ==
  \/ TimedTranslateChunks \/ TimedWaitIfNeeded \/ TimedLimiterWakes
  \/ TimedPrimaryOk \/ TimedPrimaryFails \/ TimedFallbackOk \/ TimedFallbackFails
  \/ TimedRetryDelayDone \/ FreeTick

SpecFreeTimed == InitFreeTimed /\ [][NextFreeTimed]_vars

(***************************************************************************)
(* SpecProgress: the progress display of one row of src/src/App.tsx: every *)
(* translateRow of a text that is not blank starts an interval that writes *)
(* translationProgress every 500 ms.                                       *)
(***************************************************************************)

\* attempts of the row that are modelled
MaxAttempts == 2

\* const languages = [...]                                    App.tsx:212
ProgressLanguages ==
  << "Spanish", "French", "Turkish", "Russian", "Ukrainian",
     "Portuguese", "Chinese", "Japanese", "Arabic" >>

\* Math.ceil(text.length / 1000)                              App.tsx:211
EstimatedChunks(t) == (Len(t) + 999) \div 1000

\* the translationProgress the interval callback writes       App.tsx:220-224
ProgressOf(at) ==
  [ chunksTotal     |-> at.chunks * Len(ProgressLanguages),
    chunksCompleted |-> at.idx * at.chunks,
    currentLanguage |-> ProgressLanguages[at.idx + 1] ]

\* whether the interval of an attempt runs on after its catch block: the
\* block has no clearInterval, and progressInterval is not in its scope
\*                                                            App.tsx:250-281
ProgressAfterReject(at) == at.timer

\* translateRow(rowId, t) up to its await: a blank text clears the progress;
\* any other text clears it and starts the interval before translateText is
\* called                                                     App.tsx:194-233
ProgTranslateRow ==
  /\ variant = "progress"
  /\ \E t \in AppTexts :
       /\ prProgress' = "undefined"
       /\ IF Trim(t) = <<>>
          THEN UNCHANGED prAttempts
          ELSE /\ Len(prAttempts) < MaxAttempts
               /\ prAttempts' = Append(prAttempts,
                    [status |-> "awaiting", timer |-> TRUE, idx |-> 0,
                     chunks |-> EstimatedChunks(t)])
  /\ UNCHANGED notProgVars

\* the callback of setInterval runs                           App.tsx:215-231
ProgIntervalTick ==
  /\ variant = "progress"
  /\ \E k \in 1..Len(prAttempts) :
       /\ prAttempts[k].timer
       /\ IF prAttempts[k].idx < Len(ProgressLanguages)
          THEN /\ prProgress' = ProgressOf(prAttempts[k])
               /\ prAttempts' = [prAttempts EXCEPT ![k].idx = @ + 1]
          ELSE UNCHANGED progVars
  /\ UNCHANGED notProgVars

\* translateText resolved: clearInterval, then the row is stored with
\* translationProgress: undefined                             App.tsx:233-249
ProgResolved ==
  /\ variant = "progress"
  /\ \E k \in 1..Len(prAttempts) :
       /\ prAttempts[k].status = "awaiting"
       /\ prAttempts' = [prAttempts EXCEPT ![k].status = "resolved",
                                           ![k].timer = FALSE]
  /\ prProgress' = "undefined"
  /\ UNCHANGED notProgVars

\* translateText rejected: the row is stored with the error and
\* translationProgress: undefined                             App.tsx:250-281
ProgRejected ==
  /\ variant = "progress"
  /\ \E k \in 1..Len(prAttempts) :
       /\ prAttempts[k].status = "awaiting"
       /\ prAttempts' = [prAttempts EXCEPT ![k].status = "rejected",
                           ![k].timer = ProgressAfterReject(prAttempts[k])]
  /\ prProgress' = "undefined"
  /\ UNCHANGED notProgVars

InitProgress ==
  /\ BaseUnused /\ variant = "progress" /\ OrderUnused /\ TableUnused /\ SwitchUnused
  /\ prAttempts = <<>> /\ prProgress = "undefined"

NextProgress ==
  ProgTranslateRow \/ ProgIntervalTick \/ ProgResolved \/ ProgRejected

SpecProgress == InitProgress /\ [][NextProgress]_vars

(***************************************************************************)
(* SpecOrder: the column order of src/src/App.tsx under moveLanguage,      *)
(* moveLanguageUp and moveLanguageDown.  Indices count from 0 as in the    *)
(* code; "undefined" stands for the value of that name.                    *)
(***************************************************************************)

\* reordering calls that are modelled
MaxMoves == 2

\* the indices tried are -IndexBound .. IndexBound
IndexBound == 11

Indices == (0 - IndexBound)..IndexBound

\* useState<Language[]>([...]), by key                        App.tsx:75-86
InitialOrder ==
  << "english", "spanish", "french", "turkish", "russian", "ukrainian",
     "portuguese", "chinese", "japanese", "arabic" >>

\* the start position Array.prototype.splice computes from its first
\* argument for an array of length len                        App.tsx:93-94
SpliceStart(len, start) ==
  IF start < 0
  THEN (IF len + start < 0 THEN 0 ELSE len + start)
  ELSE (IF start > len THEN len ELSE start)

\* const [movedItem] = newOrder.splice(fromIndex, 1): the removed element
\*                                                            App.tsx:93
MovedItem(order, fromIndex) ==
  LET s == SpliceStart(Len(order), fromIndex)
  IN IF s < Len(order) THEN order[s + 1] ELSE "undefined"

\* newOrder after newOrder.splice(fromIndex, 1)               App.tsx:93
AfterRemove(order, fromIndex) ==
  LET s == SpliceStart(Len(order), fromIndex)
  IN IF s < Len(order)
     THEN SubSeq(order, 1, s) \o SubSeq(order, s + 2, Len(order))
     ELSE order

\* newOrder after newOrder.splice(toIndex, 0, item)           App.tsx:94
AfterInsert(order, toIndex, item) ==
  LET s == SpliceStart(Len(order), toIndex)
  IN SubSeq(order, 1, s) \o <<item>> \o SubSeq(order, s + 1, Len(order))

\* mutant of EnglishPinned: no index is refused
NothingPinned(fromIndex, toIndex) == FALSE

\* if (fromIndex === 0 || toIndex === 0) return               App.tsx:90
EnglishPinned(fromIndex, toIndex) == fromIndex = 0 \/ toIndex = 0

\* the order moveLanguage(fromIndex, toIndex) sets            App.tsx:89-96
MoveLanguageOrder(order, fromIndex, toIndex) ==
  IF EnglishPinned(fromIndex, toIndex) THEN order
  ELSE AfterInsert(AfterRemove(order, fromIndex), toIndex,
                   MovedItem(order, fromIndex))

\* the order moveLanguageUp(index) sets                       App.tsx:98-101
MoveLanguageUpOrder(order, index) ==
  IF index <= 1 THEN order ELSE MoveLanguageOrder(order, index, index - 1)

\* the order moveLanguageDown(index) sets                     App.tsx:103-106
MoveLanguageDownOrder(order, index) ==
  IF index = 0 \/ index >= Len(order) - 1 THEN order
  ELSE MoveLanguageOrder(order, index, index + 1)

\* index is the index of a column of the table
IsColumn(index) == index \in 0..(Len(languageOrder) - 1)

\* moveLanguage(fromIndex, toIndex)                           App.tsx:89-96
MoveLanguage ==
  /\ variant = "order" /\ moves < MaxMoves
  /\ \E fromIndex \in Indices, toIndex \in Indices :
       /\ languageOrder' = MoveLanguageOrder(languageOrder, fromIndex, toIndex)
       /\ outOfRange' = (outOfRange \/ ~IsColumn(fromIndex) \/ ~IsColumn(toIndex))
  /\ moves' = moves + 1
  /\ UNCHANGED notOrderVars

\* moveLanguageUp(index)                                      App.tsx:98-101
MoveLanguageUp ==
  /\ variant = "order" /\ moves < MaxMoves
  /\ \E index \in Indices :
       /\ languageOrder' = MoveLanguageUpOrder(languageOrder, index)
       /\ outOfRange' = (outOfRange \/ ~IsColumn(index))
  /\ moves' = moves + 1
  /\ UNCHANGED notOrderVars

\* moveLanguageDown(index)                                    App.tsx:103-106
MoveLanguageDown ==
  /\ variant = "order" /\ moves < MaxMoves
  /\ \E index \in Indices :
       /\ languageOrder' = MoveLanguageDownOrder(languageOrder, index)
       /\ outOfRange' = (outOfRange \/ ~IsColumn(index))
  /\ moves' = moves + 1
  /\ UNCHANGED notOrderVars

InitOrder ==
  /\ BaseUnused /\ variant = "order" /\ ProgUnused /\ TableUnused /\ SwitchUnused
  /\ languageOrder = InitialOrder /\ moves = 0 /\ outOfRange = FALSE

NextOrder == MoveLanguage \/ MoveLanguageUp \/ MoveLanguageDown

SpecOrder == InitOrder /\ [][NextOrder]_vars

(***************************************************************************)
(* SpecTable: the TranslationTable component of src/unnamed/part_001.  A   *)
(* state update, the render it causes and the effect run after the render  *)
(* are one step.  languageNames is a new object in every render, so        *)
(* handleTranslate is a new function in every render and the effect, which *)
(* depends on it, runs after every render.  debouncedText is an input: it  *)
(* is the value of the useDebounce hook.                                   *)
(***************************************************************************)

\* translateText calls of the component that are modelled
MaxTableCalls == 3

\* useState<TranslationStatistics>({...}), the three counters part_001:19-25
NoStatistics ==
  [totalTranslations |-> 0, successfulTranslations |-> 0, failedTranslations |-> 0]

\* Object.keys(languageNames).length                          part_001:35-45
LanguageNameCount == Len(Languages)

\* the statistics after a call resolved with successCount translations that
\* are not blank, of totalCount                               part_001:74-87
StatisticsOnSuccess(prev, successCount, totalCount) ==
  [totalTranslations      |-> prev.totalTranslations + totalCount,
   successfulTranslations |-> prev.successfulTranslations + successCount,
   failedTranslations     |-> prev.failedTranslations + (totalCount - successCount)]

\* the statistics after a call rejected                       part_001:93-97
StatisticsOnFailure(prev) ==
  [prev EXCEPT !.failedTranslations = @ + LanguageNameCount]

\* the effect run after a render in which the text is t and isTranslating is
\* translating, settled calls having just settled: handleTranslate() for a
\* text that is not blank, which returns at once while isTranslating is set
\* and otherwise sets isTranslating, clears the error and calls
\* translateText; setTranslations(null) and setError(null) for a blank text
\*                                                  part_001:64-70, 104-111
TableEffect(t, translating, error, settled) ==
  IF Trim(t) # <<>> /\ ~translating
  THEN /\ tCalls < MaxTableCalls
       /\ tTranslating' = TRUE /\ tError' = "none"
       /\ tInFlight' = tInFlight - settled + 1
       /\ tCalls' = tCalls + 1
  ELSE /\ tTranslating' = translating
       /\ tError' = IF Trim(t) = <<>> THEN "none" ELSE error
       /\ tInFlight' = tInFlight - settled
       /\ UNCHANGED tCalls

\* debouncedText changes                                      part_001:33
TableTextChanges ==
  /\ variant = "table"
  /\ \E t \in AppTexts \ {tText} :
       /\ tText' = t
       /\ TableEffect(t, tTranslating, tError, 0)
  /\ tStarted' = tCalls' - tCalls
  /\ UNCHANGED tStats
  /\ UNCHANGED notTableVars

\* translateText resolved with successCount translations that are not blank
\*                                                            part_001:71-101
TableCallResolves ==
  /\ variant = "table" /\ tInFlight > 0
  /\ \E successCount \in 0..Len(Languages) :
       tStats' = StatisticsOnSuccess(tStats, successCount, Len(Languages))
  /\ TableEffect(tText, FALSE, tError, 1)
  /\ tStarted' = tStarted + (tCalls' - tCalls)
  /\ UNCHANGED tText
  /\ UNCHANGED notTableVars

\* translateText rejected                                     part_001:89-101
TableCallRejects ==
  /\ variant = "table" /\ tInFlight > 0
  /\ tStats' = StatisticsOnFailure(tStats)
  /\ TableEffect(tText, FALSE, "failed", 1)
  /\ tStarted' = tStarted + (tCalls' - tCalls)
  /\ UNCHANGED tText
  /\ UNCHANGED notTableVars

InitTable ==
  /\ BaseUnused /\ variant = "table" /\ ProgUnused /\ OrderUnused /\ SwitchUnused
  /\ tText = <<>> /\ tTranslating = FALSE /\ tError = "none" /\ tInFlight = 0
  /\ tStats = NoStatistics /\ tCalls = 0 /\ tStarted = 0

NextTable == TableTextChanges \/ TableCallResolves \/ TableCallRejects

SpecTable == InitTable /\ [][NextTable]_vars

(***************************************************************************)
(* SpecSwitch: one translateText call of the multi-provider variant        *)
(* (src/unnamed/part_002) for a text that is not blank, with               *)
(* setTranslationService calls between its steps.  Only the provider each  *)
(* step reads is modelled; the call itself is SpecSequential.              *)
(***************************************************************************)

\* type TranslationService                                    part_002:32-56
TranslationServices == {"google", "huggingface", "groq", "mock"}

\* TRANSLATION_SERVICES[service].rateLimit                    part_002:32-56
ServiceRateLimit ==
  [google |-> 200, huggingface |-> 1000, groq |-> 500, mock |-> 100]

\* translateToLanguage is called: it switches on currentService and calls
\* the client of that provider, which waits on that provider's limiter
\*                                                            part_002:376-394
SwitchCallProvider ==
  /\ swUsed' = currentService
  /\ swpc' = "provider"

\* the loop takes the language after swLang, or ends          part_002:417-441
SwitchNextLanguage ==
  IF swLang < Len(Languages)
  THEN /\ swLang' = swLang + 1 /\ swAttempt' = 0
       /\ SwitchCallProvider
  ELSE /\ swpc' = "settled"
       /\ UNCHANGED <<swLang, swAttempt, swUsed>>

\* translateText(text) up to its first await: withRetry calls
\* translateToLanguage for the first language                 part_002:406-425
SwitchTranslateText ==
  /\ variant = "switch" /\ swpc = "idle"
  /\ swStart' = currentService
  /\ swLang' = 1 /\ swAttempt' = 0
  /\ SwitchCallProvider
  /\ UNCHANGED <<currentService, swDelay>>
  /\ UNCHANGED notSwitchVars

\* the provider client returned: the translation is stored and, but for the
\* last language, the delay of the current provider is set    part_002:427-433
SwitchProviderOk ==
  /\ variant = "switch" /\ swpc = "provider"
  /\ IF swLang < Len(Languages)
     THEN /\ swDelay' = ServiceRateLimit[currentService]
          /\ swpc' = "langDelay"
          /\ UNCHANGED <<swLang, swAttempt, swUsed>>
     ELSE /\ SwitchNextLanguage
          /\ UNCHANGED swDelay
  /\ UNCHANGED <<currentService, swStart>>
  /\ UNCHANGED notSwitchVars

\* the provider client threw: withRetry sets the backoff timeout, or after
\* the last attempt the language is recorded as failed and the loop goes on
\*                                                  part_002:112-137, 435-440
SwitchProviderFails ==
  /\ variant = "switch" /\ swpc = "provider"
  /\ IF RetryExhausted(swAttempt, MultiMaxRetries)
     THEN SwitchNextLanguage
     ELSE /\ swAttempt' = swAttempt + 1 /\ swpc' = "backoff"
          /\ UNCHANGED <<swLang, swUsed>>
  /\ UNCHANGED <<currentService, swStart, swDelay>>
  /\ UNCHANGED notSwitchVars

\* the backoff timeout fires: the operation is called again   part_002:121-126
SwitchBackoffDone ==
  /\ variant = "switch" /\ swpc = "backoff"
  /\ SwitchCallProvider
  /\ UNCHANGED <<currentService, swStart, swLang, swAttempt, swDelay>>
  /\ UNCHANGED notSwitchVars

\* the timeout between two languages fires                    part_002:431-433
SwitchLanguageDelayDone ==
  /\ variant = "switch" /\ swpc = "langDelay"
  /\ SwitchNextLanguage
  /\ UNCHANGED <<currentService, swStart, swDelay>>
  /\ UNCHANGED notSwitchVars

\* setTranslationService(service), called by the user interface while the
\* translateText call is suspended or before it               part_002:102-105
SetTranslationService ==
  /\ variant = "switch" /\ swpc # "settled"
  /\ \E s \in TranslationServices \ {currentService} : currentService' = s
  /\ UNCHANGED <<swStart, swpc, swLang, swAttempt, swUsed, swDelay>>
  /\ UNCHANGED notSwitchVars

InitSwitch ==
  /\ BaseUnused /\ variant = "switch" /\ ProgUnused /\ OrderUnused /\ TableUnused
  /\ currentService = "huggingface" /\ swStart = "none" /\ swpc = "idle"
  /\ swLang = 0 /\ swAttempt = 0 /\ swUsed = "none" /\ swDelay = -1

NextSwitch ==
  \/ SwitchTranslateText \/ SwitchProviderOk \/ SwitchProviderFails
  \/ SwitchBackoffDone \/ SwitchLanguageDelayDone \/ SetTranslationService

SpecSwitch == InitSwitch /\ [][NextSwitch]_vars

(***************************************************************************)
(* Properties                                                              *)
(***************************************************************************)

\* the text is empty or white space only
BlankText == \A i \in 1..Len(text) : IsSpace(text[i])

\* translateText has settled
TextSettled == tpc \in {"resolved", "rejected"}

\* the languages whose catch block has run
FailedKeys ==
  { k \in LanguageKeys : \E i \in 1..Len(errors) : errors[i][1] = LANGUAGE_CODES[k].name }

\* the translation of the whole text into a language: the provider's
\* translations of the chunks, in chunk order, separated by one space
ExpectedTranslation(lang) ==
  LET cs == chunkText(text, ChunkSize)
  IN Join([i \in 1..Len(cs) |-> Trim(Translated(LANGUAGE_CODES[lang].code, cs[i]))], <<" ">>)

\* C1: OpenAI variant, non-blank text: when at least one but not all of the 9
\* languages failed, translateText resolves, every failed language maps to the
\* empty string and every other language to its non-empty translation.
C1_PartialFailureResolves ==
  (TextSettled /\ ~BlankText /\ Len(errors) > 0 /\ Len(errors) < Len(Languages))
    => /\ outcome.kind = "resolved"
       /\ \A k \in LanguageKeys :
            IF k \in FailedKeys
            THEN outcome.value[k] = <<>>
            ELSE outcome.value[k] # <<>> /\ outcome.value[k] = ExpectedTranslation(k)

\* spanish and french failed, the other seven succeeded, on a two-chunk text
C1_Witness ==
  /\ tpc = "resolved" /\ Len(text) > ChunkSize
  /\ FailedKeys = {"spanish", "french"}

\* C2: OpenAI variant: translateText rejects with the aggregate error exactly
\* when all 9 languages failed; the message then holds one entry per language,
\* in the fixed language order, each with that language's own error message
\* (the message of the error its withRetry rejected with).
C2_Layout ==
  /\ (tpc = "rejected" /\ outcome.message[1] = "All translations failed. Errors: ")
       => Len(errors) = Len(Languages)
  /\ (TextSettled /\ ~BlankText)
    => /\ (outcome.kind = "rejected") <=> (Len(errors) = Len(Languages))
       /\ outcome.kind = "rejected" =>
            /\ outcome.message[1] = "All translations failed. Errors: "
            /\ Len(outcome.message) = 4 * Len(Languages)
            /\ \A i \in 1..Len(Languages) :
                 /\ errors[i][1] = LANGUAGE_CODES[Languages[i]].name
                 /\ SubSeq(outcome.message, 4 * i - 2, 4 * i) = errors[i]

C2_OwnMessage ==
  (tpc = "awaitLang" /\ rpc = "rejected")
    => errors' = Append(errors, <<LANGUAGE_CODES[CurrentLang].name, ": ", lastError.msg>>)

C2_TotalFailureRejects == [](C2_Layout) /\ [][C2_OwnMessage]_vars

\* all nine failed, not all with the same message
C2_Witness ==
  /\ tpc = "rejected" /\ Len(errors) = Len(Languages)
  /\ errors[1][3] = "OpenAI API error"
  /\ errors[2][3] = "Empty response from OpenAI API"

\* C4: translateText on empty or white-space-only text rejects with the input
\* error, and no limiter wait, no withRetry call and no request precedes it.
C4_BlankRejectedAtOnce ==
  (BlankText /\ tpc # "start")
    => /\ tpc = "rejected"
       /\ outcome.kind = "rejected"
       /\ outcome.message = <<"No text provided for translation">>
       /\ waits = 0 /\ requests = 0 /\ opCalls = 0
       /\ rpc = "idle" /\ opc = "idle" /\ inflight = {}

\* a white-space-only text has been rejected
C4_Witness == tpc = "rejected" /\ text = <<" ", "\n">>

\* C5: whenever translateText resolves, the result has exactly the 9 keys,
\* each bound to a string, whichever languages failed.
C5_ResultFullyPopulated ==
  tpc = "resolved"
    => /\ DOMAIN outcome.value = LanguageKeys
       /\ \A k \in LanguageKeys : outcome.value[k] \in Seq(STRING)

\* resolved with failed and succeeded languages
C5_Witness ==
  /\ tpc = "resolved"
  /\ "spanish" \notin FailedKeys /\ "french" \in FailedKeys /\ "arabic" \in FailedKeys

\* C6: withRetry whose operation fails on every invocation invokes it exactly
\* maxRetries+1 times and then rejects with the error of the last invocation
\* (that very error: not the first one, not a wrapper).
C6_State ==
  rpc = "rejected"
    => /\ opCalls = maxRetries + 1
       /\ lastError # NoError
       /\ lastError.id = opCalls

C6_Step ==
  (rpc = "op" /\ opc = "rejected")
    => IF opCalls = maxRetries + 1
       THEN rpc' = "rejected" /\ lastError' = opError
       ELSE rpc' = "loop" /\ opCalls < maxRetries + 1

C6_RetryExhaustion == [](C6_State) /\ [][C6_Step]_vars

\* four failed invocations under maxRetries = 3
C6_Witness == rpc = "rejected" /\ maxRetries = 3 /\ tpc = "detached" /\ lastError.msg = "E2"

\* C7: withRetry stops at the first success: it resolves with the value of the
\* succeeding invocation, which is the last one; a backoff delay precedes each
\* attempt but the first, and none follows the success.
C7_State ==
  /\ attempt = 0 => delaysStarted = 0 /\ delay = 0
  /\ rpc = "resolved"
       => /\ opCalls = attempt + 1
          /\ delaysStarted = attempt
          /\ delay = 0
          /\ opc = "idle"
          /\ tpc = "detached" => retValue = <<"v", opCalls>>

C7_Step ==
  /\ opc = "resolved" => (rpc' = "resolved" /\ retValue' = opValue)
  /\ rpc = "resolved" => (opCalls' <= opCalls /\ delaysStarted' <= delaysStarted
                           /\ opc' = "idle" /\ delay' = 0)

C7_StopsAtFirstSuccess == [](C7_State) /\ [][C7_Step]_vars

\* success at the third attempt, after two failures
C7_Witness == rpc = "resolved" /\ tpc = "detached" /\ attempt = 2

\* C3: RateLimiter.wait() under concurrent callers: no two returns from wait()
\* on one limiter are less than the interval apart. (Refuted: two flows that are
\* both suspended in wait() computed their waits from the same lastCall.)
C3_ConcurrentSpacing ==
  prevReturn # -1 => lastReturn - prevReturn >= OpenAIInterval

\* C8: within one language the chunk requests are sequential and in chunk
\* order: at most one request is in flight, it is the request of the chunk that
\* follows the chunks already translated, translation i is the translation of
\* chunk i, and the language's output is the translations joined in index order.
C8_ChunksInOrder ==
  /\ Cardinality(inflight) <= 1
  /\ \A j \in inflight : j = ci /\ Len(translatedChunks) = j - 1
  /\ tpc = "awaitLang" =>
       /\ \A i \in 1..Len(translatedChunks) :
            translatedChunks[i] = Trim(Translated(LANGUAGE_CODES[CurrentLang].code, chunks[i]))
       /\ opc = "resolved" => opValue = ExpectedTranslation(CurrentLang)
       /\ rpc = "resolved" => retValue = ExpectedTranslation(CurrentLang)

\* a two-chunk language resolved after the request of chunk 2
C8_Witness ==
  /\ opc = "resolved" /\ Len(chunks) = 2 /\ Len(translatedChunks) = 2
  /\ translatedChunks[1] # translatedChunks[2]

\* C9: OpenAI variant: a chunk that has been translated in this
\* translateToLanguage call is never requested again. (Refuted: withRetry wraps
\* the whole of translateWithOpenAI, so a retry starts again at chunk 1.)
C9_NoChunkRequestedAgain == \A j \in inflight : j \notin okSeen

\* C10: OpenAI variant: a language whose withRetry rejected is recorded as
\* failed and its entry is the empty string, then and in the final result,
\* whatever chunks had been translated before the failure.
C10_State ==
  /\ \A k \in FailedKeys : k \in DOMAIN result /\ result[k] = <<>>
  /\ tpc = "resolved" => \A k \in FailedKeys : outcome.value[k] = <<>>

C10_Step ==
  (tpc = "awaitLang" /\ rpc = "rejected")
    => /\ Len(errors') = Len(errors) + 1
       /\ errors'[Len(errors')][1] = LANGUAGE_CODES[CurrentLang].name
       /\ result'[CurrentLang] = <<>>

C10_NoPartialLanguage == [](C10_State) /\ [][C10_Step]_vars

\* a language fails for good although its first chunk had been translated
C10_Witness == tpc = "awaitLang" /\ rpc = "rejected" /\ okSeen = {1} /\ Len(text) > ChunkSize

\* C11: in the sequential variants one language is translated at a time: the
\* retry loop, the operation and the HTTP requests are active only while
\* translateText awaits a language; the language awaited is the langIdx-th
\* of spanish, french, turkish, russian, ukrainian, portuguese, chinese,
\* japanese, arabic; and it is started only when every language before it
\* has its entry in result and nothing of the previous language is pending
C11_FixedOrder ==
  << "spanish", "french", "turkish", "russian", "ukrainian",
     "portuguese", "chinese", "japanese", "arabic" >>

C11_State ==
  /\ (rpc # "idle" \/ opc # "idle" \/ inflight # {}) => tpc = "awaitLang"
  /\ tpc = "awaitLang" =>
       /\ langIdx \in 1..Len(C11_FixedOrder)
       /\ CurrentLang = C11_FixedOrder[langIdx]
       /\ DOMAIN result = { C11_FixedOrder[i] : i \in 1..(langIdx - 1) }

C11_Step ==
  (tpc # "awaitLang" /\ tpc' = "awaitLang") =>
     /\ rpc = "idle" /\ opc = "idle" /\ inflight = {}
     /\ langIdx' = Cardinality(DOMAIN result) + 1

C11_OneLanguageAtATimeInOrder == [](C11_State) /\ [][C11_Step]_vars

\* the last language is being translated after an earlier one failed
C11_Witness ==
  /\ variant = "multi" /\ tpc = "awaitLang" /\ langIdx = Len(Languages)
  /\ errors # <<>> /\ rpc = "op"

\* C12: OpenAI variant, non-blank text: every language is attempted in every
\* call (the loop index advances by one, only past a language that was
\* awaited and now has its entry, and the call settles only after the ninth);
\* the catch block of a failed language goes on with the next language
\* without settling the call; an entry of result, once stored, is never
\* removed or changed
C12_State ==
  (TextSettled /\ ~BlankText) =>
     /\ langIdx = Len(Languages) + 1
     /\ DOMAIN result = LanguageKeys

C12_Step ==
  /\ \A k \in DOMAIN result : k \in DOMAIN result' /\ result'[k] = result[k]
  /\ langIdx' # langIdx =>
       /\ langIdx' = langIdx + 1
       /\ tpc \in {"awaitLang", "langDelay"}
       /\ Languages[langIdx] \in DOMAIN result'
  /\ (tpc = "awaitLang" /\ rpc = "rejected" /\ tpc' # tpc) =>
       /\ tpc' = "loop" /\ outcome' = NoOutcome
  /\ (~TextSettled /\ TextSettled' /\ ~BlankText) => langIdx = Len(Languages) + 1

C12_FailureIsolation == [](C12_State) /\ [][C12_Step]_vars

\* the call resolved although the second language failed: the first
\* language's translation is still there, and the last one was translated
C12_Witness ==
  /\ tpc = "resolved" /\ FailedKeys = {"french"}
  /\ result["spanish"] = ExpectedTranslation("spanish")
  /\ result["arabic"] = ExpectedTranslation("arabic")

\* C13: one sequential caller of wait() (a translateText call of the OpenAI
\* variant that runs alone): any two consecutive returns from wait() are at
\* least the interval of 1000 ms apart, and the request that follows a return
\* starts at that return, so consecutive requests, those of retry attempts
\* included, start at least 1000 ms apart
C13_SingleCallerSpacing ==
  /\ prevReturn # -1 => lastReturn - prevReturn >= OpenAIInterval
  /\ fpc[SingleCaller] = "fetching" => lastReturn = lastCall /\ lastReturn <= clock

\* the caller was suspended by its second wait() and its second request
\* starts exactly one interval after the first
C13_Witness ==
  /\ fpc[SingleCaller] = "fetching"
  /\ prevReturn = StartTime /\ lastReturn = prevReturn + OpenAIInterval

\* C14: withRetry of the OpenAI variant: nothing delays attempt 0; the timer
\* started before attempt n >= 1 lasts baseDelay * 2^(n-1) plus a jitter in
\* [0, 1000), hence at least baseDelay * 2^(n-1): 1x, 2x, 4x baseDelay before
\* attempts 1, 2, 3
C14_BackoffSchedule ==
  /\ attempt = 0 => delay = 0 /\ delaysStarted = 0
  /\ rpc = "delay" =>
       /\ attempt >= 1
       /\ delay >= baseDelay * 2^(attempt - 1)
       /\ delay < baseDelay * 2^(attempt - 1) + 1000
       /\ attempt = 1 => delay >= 1 * baseDelay
       /\ attempt = 2 => delay >= 2 * baseDelay
       /\ attempt = 3 => delay >= 4 * baseDelay

\* the timer before attempt 3 with the smallest jitter: 4 x baseDelay
C14_Witness ==
  /\ rpc = "delay" /\ attempt = 3 /\ baseDelay = 1000 /\ delay = 4000

\* a chunk that cannot be divided: one word, with no space and no newline in
\* it (so no sentence boundary either)
IndivisibleToken(chunk) == \A j \in 1..Len(chunk) : ~IsSpace(chunk[j])

\* C15: chunkText of the OpenAI variant, any text, maxChunkSize >= 1: a
\* returned chunk is longer than maxChunkSize only if it is a single
\* indivisible token; a line or sentence of several words is never returned
\* as one chunk longer than maxChunkSize
C15_ChunkSizeBound ==
  ckpc = "openai" =>
    \A i \in 1..Len(ckChunks) :
      Len(ckChunks[i]) <= ckMax \/ IndivisibleToken(ckChunks[i])

\* the characters of a string that are not white space, in order
NonWhitespace(s) == SelectSeq(s, LAMBDA c : ~IsSpace(c))

\* C16: chunkText of the OpenAI variant, any text, maxChunkSize >= 1: the
\* chunks, taken in order, hold every character of the text that is not white
\* space, once each and in the order of the text
C16_RoundTrip ==
  ckpc = "openai" =>
    NonWhitespace(Join(ckChunks, <<>>)) = NonWhitespace(ckText)

\* several chunks were returned and joiners between them were lost
C16_Witness ==
  /\ ckpc = "openai" /\ Len(ckChunks) >= 3
  /\ Len(Join(ckChunks, <<>>)) < Len(ckText)
  /\ \E i \in 1..Len(ckChunks) : Len(ckChunks[i]) >= 2

\* C17: chunkText of the OpenAI variant, non-empty text, maxChunkSize >= 1:
\* the returned array is not empty and none of its elements is the empty
\* string
C17_NonEmptyChunks ==
  (ckpc = "openai" /\ ckText # <<>> /\ ckMax >= 1) =>
     /\ Len(ckChunks) >= 1
     /\ \A i \in 1..Len(ckChunks) : ckChunks[i] # <<>>

\* a text of separators only, longer than maxChunkSize
C17_Witness ==
  /\ ckpc = "openai" /\ Len(ckText) > ckMax
  /\ \A j \in 1..Len(ckText) : IsSpace(ckText[j])
  /\ \E j \in 1..(Len(ckText) - 1) : ckText[j] = " " /\ ckText[j + 1] = " "

\* C18: either variant of chunkText returns the one-element array [text],
\* the text as it was passed, whenever text.length <= maxSize
C18_FastPath ==
  (ckpc \in {"openai", "legacy"} /\ Len(ckText) <= ckMax) => ckChunks = <<ckText>>

\* the legacy variant returned a text of exactly maxSize characters that
\* starts with white space
C18_Witness ==
  /\ ckpc = "legacy" /\ Len(ckText) = ckMax /\ ckMax >= 2
  /\ IsSpace(ckText[1]) /\ ckChunks = <<ckText>>

\* C19: batched free-Google variant: when some but not all languages fail,
\* translateText does not reject: it resolves with the empty string for each
\* language that failed and with the translation of each language that
\* succeeded
C19_PartialFailureDegrades ==
  LET failed == { l \in LanguageKeys : bTask[l].pc = "rejected" }
      succeeded == { l \in LanguageKeys : bTask[l].pc = "resolved" }
  IN (bOutcome.kind # "pending" /\ failed # {} /\ failed # LanguageKeys) =>
       /\ bOutcome.kind = "resolved"
       /\ \A l \in failed : bOutcome.value[l] = <<>>
       /\ \A l \in succeeded : bOutcome.value[l] = bTask[l].value

\* C20: parallel variant: translateText has settled only if each of the nine
\* language tasks it launched has settled; it is never resolved or rejected
\* while one of them is still in flight
C20_SettlesAfterAllTasks ==
  pOutcome.kind # "pending" =>
    \A l \in LanguageKeys : pTask[l].pc \in {"idle", "resolved", "rejected"}

\* language tasks of the batched call that were launched and have not settled
BatchInFlight ==
  { l \in LanguageKeys : bTask[l].pc \in {"limiter", "fetch", "backoff"} }

\* the number of the batch a language belongs to (0 for the first three)
BatchOf(l) ==
  ((CHOOSE i \in 1..Len(Languages) : Languages[i] = l) - 1) \div BatchSize

\* C26: batched variant: at most 3 language tasks of one translateText call
\* are in flight at any time, and a language of a later batch has been started
\* only if every language of each earlier batch has completed
C26_BatchesOfThree ==
  /\ Cardinality(BatchInFlight) <= 3
  /\ \A l, k \in LanguageKeys :
       (bTask[l].pc # "idle" /\ BatchOf(k) < BatchOf(l)) => bTask[k].pc = "resolved"

C26_Witness ==
  /\ Cardinality(BatchInFlight) = 3
  /\ \E l \in BatchInFlight : BatchOf(l) = 1
  /\ \A k \in LanguageKeys : BatchOf(k) = 2 => bTask[k].pc = "idle"

\* C24: withRetry of the free variants called with maxRetries = n has made
\* n + 1 attempts when it rethrows; withRetry(operation, 2, 2000) has made 3
C24_AttemptsPlusOne ==
  (variant = "legacy" /\ rpc = "rejected") =>
    /\ opCalls = maxRetries + 1
    /\ (maxRetries = 2 /\ baseDelay = 2000) => opCalls = 3

\* C25: withRetry with the defaults of the batched variant (3 attempts,
\* delayMs = 1000): the k-th wait between attempts lasts 2^(k-1) seconds, and
\* a request whose attempts all failed has waited 1 s, 2 s and 4 s
C25_ExponentialWaits ==
  (variant = "legacy" /\ maxRetries = LegacyMaxAttempts /\ baseDelay = LegacyDefaultDelay) =>
    /\ rpc = "delay" => delay = 1000 * 2^(delaysStarted - 1)
    /\ rpc = "rejected" => delaysStarted = 3

\* C21: sequential free-Google variant with fallback: in the result that
\* translateText returns, the entry of a language whose translation failed is
\* the empty string, and an entry that is not empty belongs to a language
\* that was translated
C21_FailedLanguageIsEmpty ==
  (variant = "free" /\ outcome.kind = "resolved") =>
    \A l \in LanguageKeys :
      /\ l \in failedLangs => outcome.value[l] = <<>>
      /\ outcome.value[l] # <<>> => l \notin failedLangs

\* C22: sequential free-Google variant: alternativeTranslate is called at
\* most once for a chunk, and only when the primary request has failed in
\* every attempt withRetry makes for the chunk; when the fallback fails too,
\* the operation's error carries the primary error's message
C22_FallbackOncePerChunk ==
  variant = "free" =>
    /\ fbCalls <= 1
    /\ opc = "fallback" => opCalls = maxRetries
    /\ opc = "rejected" =>
         \E message \in PrimaryErrors : opError.msg = TranslationFailed(message)

\* C23: provider clients of the multi-provider variant: a 2xx response whose
\* body lacks the fields the translation is read from is never accepted as a
\* translated chunk (it makes the client throw)
C23_MalformedBodyRejected ==
  variant = "client" =>
    \A i \in 1..Len(accepted) : accepted[i].fields

\* a translateText call of the row for text t resolves in this step
AppResolves(t) == aCalls'[t] < aCalls[t] /\ aError' = "none"

\* C27: table row of App.tsx: the result of a translateText call that
\* resolves is written into the row only if the row's English text is still
\* the text the call was made for (a result for an edited text is discarded);
\* hence, when no call is in flight and no timeout is pending, the row shows
\* the translations of its current text or none
C27_Step ==
  \A t \in AppCallTexts :
    (AppResolves(t) /\ t # aEnglish) => aShown' = aShown

C27_State ==
  (Count(aCalls) = 0 /\ Count(aRetry) = 0 /\ aTimer = {} /\ aShown # <<>>) =>
    aShown = AppResult(aEnglish)

C27_StaleResultDiscarded ==
  [](variant = "app" => C27_State) /\ [][variant = "app" => C27_Step]_vars

\* C28: table row of App.tsx: while the current text has been translated
\* successfully and is not edited, no translateText call is started for the
\* row and no debounce timeout is pending: one translation per text, then
\* quiescence
C28_Step ==
  (aFresh /\ aEnglish' = aEnglish) =>
    \A t \in AppCallTexts : aCalls'[t] <= aCalls[t]

C28_NoRedundantTranslation ==
  [][variant = "app" => C28_Step]_vars

\* C29: table row of App.tsx: when the text was changed to a non-blank value
\* for which no translateText call has been started since, and no call is in
\* flight and no retry is pending, then the debounce timeout for exactly that
\* text is pending: the translation starts by itself, whatever state the row
\* was in when the text was typed
C29_AutoTranslateArmed ==
  (variant = "app" /\ Trim(aEnglish) # <<>> /\ ~aStarted
     /\ Count(aCalls) = 0 /\ Count(aRetry) = 0) =>
    aTimer = {aEnglish}

\* C30: table row of App.tsx: at most one translateText call of the row is
\* in flight
C30_OneCallPerRow ==
  variant = "app" => Count(aCalls) <= 1

\* C32: chunkText of the free-Google variants, any text longer than the
\* limit: the chunks, taken in order, hold every character of the text that
\* is not white space, unchanged and in the order of the text (sentence
\* punctuation included), and no chunk is the empty string
C32_LegacyContentPreserved ==
  (ckpc = "legacy" /\ Len(ckText) > ckMax) =>
    /\ NonWhitespace(Join(ckChunks, <<>>)) = NonWhitespace(ckText)
    /\ \A i \in 1..Len(ckChunks) : ckChunks[i] # <<>>

\* C31: sequential free-Google variant: any two consecutive HTTP requests of
\* a call (first attempts, retry attempts and fallback calls alike) are sent
\* at least the limiter's 200 ms apart
C31_RequestsSpaced ==
  (variant = "freeTimed" /\ reqPrev >= 0) => reqLast - reqPrev >= 200

\* the number of chunks of the text of the translateText call
ChunkCount == Len(chunkText(text, ChunkSize))

\* C33: OpenAI variant, every request answered and every timer fired: a
\* translateText call settles, and it sends at most 3 x N chunk requests for
\* each of the 9 languages (N the number of chunks of the text), 9 x 3 x N in
\* all
C33_RequestBound ==
  /\ requests <= 3 * ChunkCount
  /\ langIdx <= 9 + 1
  /\ (langIdx - 1) * 3 * ChunkCount + requests <= 9 * 3 * ChunkCount

C33_Terminates == [](C33_RequestBound) /\ <>(tpc \in {"resolved", "rejected"})

\* the third attempt of a language has sent its second chunk request: 3 x 2
\* requests for a two-chunk text
C33_Witness == ChunkCount = 2 /\ requests = 6 /\ attempt = 2 /\ langIdx = 9

\* every attempt of the row has finished and no translateRow has started since
ProgFinished ==
  /\ variant = "progress" /\ prAttempts # <<>>
  /\ \A k \in 1..Len(prAttempts) : prAttempts[k].status # "awaiting"

\* C37: App.tsx: once translateRow has finished for a row, resolved or
\* rejected, the progress interval of the attempt is stopped and
\* translationProgress is undefined until the next translateRow of the row
C37_ProgressCleared ==
  ProgFinished =>
    /\ \A k \in 1..Len(prAttempts) : ~prAttempts[k].timer
    /\ prProgress = "undefined"

\* order holds each of the ten languages once
IsPermutation(order) ==
  /\ Len(order) = Len(InitialOrder)
  /\ { order[i] : i \in 1..Len(order) } = { InitialOrder[i] : i \in 1..Len(InitialOrder) }

\* C38 as stated: after any moveLanguage, moveLanguageUp and moveLanguageDown
\* calls, whatever their indices, languageOrder is a permutation of the ten
\* languages and English is at index 0
C38_AnyIndices ==
  variant = "order" => IsPermutation(languageOrder) /\ languageOrder[1] = "english"

\* C38: after any moveLanguage, moveLanguageUp and moveLanguageDown calls
\* whose indices are indices of columns, languageOrder is a permutation of
\* the ten languages and English is at index 0
C38_ColumnOrder ==
  (variant = "order" /\ ~outOfRange) =>
    IsPermutation(languageOrder) /\ languageOrder[1] = "english"

\* two calls with column indices have put the last language first among the
\* translations
C38_Witness ==
  /\ variant = "order" /\ ~outOfRange /\ moves = 2
  /\ languageOrder[2] = "arabic" /\ languageOrder[10] = "french"

\* C35: TranslationTable: after any sequence of successful, partially failed
\* and totally failed translateText calls, totalTranslations is
\* successfulTranslations + failedTranslations
C35_StatisticsConsistent ==
  variant = "table" =>
    tStats.totalTranslations
      = tStats.successfulTranslations + tStats.failedTranslations

\* C36: TranslationTable: for a debounced text that does not change,
\* translateText is called once, a settled call is followed by no further
\* call until the text changes or Retry is clicked, and no two calls are in
\* flight at the same time
C36_Quiescent ==
  variant = "table" => tStarted <= 1 /\ tInFlight <= 1

\* C34: multi-provider variant: every language and every attempt of a
\* translateText call uses the provider (and so the limiter of the provider)
\* that was current when the call started, and the delays between its
\* languages are that provider's, whatever setTranslationService calls are
\* made while the call is in flight
C34_ProviderFixedPerCall ==
  (variant = "switch" /\ swpc # "idle") =>
    /\ swUsed = swStart
    /\ swDelay # -1 => swDelay = ServiceRateLimit[swStart]

\* the state in which SpecLive takes up a text of several chunks is a state
\* of Spec
LoopHeadReached ==
  \E t \in Texts : Len(t) > ChunkSize /\ LoopHead(t, LiveJoin)

====
